---- MODULE Spec2Model ----
(***************************************************************************)
(* Model of the studio_tech ingestion pipeline and query engine.           *)
(*                                                                         *)
(*   Segmenter  src/utils/pdf_to_md.py     SpecSeg, FairSpecSeg            *)
(*   Chunker    src/utils/md_to_chunks.py  SpecChunk, SpecRerun            *)
(*   Embedder   src/utils/chunks_to_embeddings.py    SpecEmbed             *)
(*   Indexer    src/utils/embeddings_to_weaviate.py  SpecIndex             *)
(*   Embedder, then Indexer                          SpecLoad              *)
(*   Indexer, run twice                              SpecReindex           *)
(*   Chunker, Embedder, then Indexer                 SpecPipeline          *)
(*   Query Engine  src/app.py              SpecQuery, SpecRetrieve         *)
(*                                                                         *)
(* Texts are sequences of tokens: a tag, a blob of prose, or the content   *)
(* of a page; string concatenation is sequence concatenation.              *)
(***************************************************************************)
EXTENDS Integers, Sequences, FiniteSets, TLC

\* ------------------------------------------------------------------ bounds

\* The PDF files found in the input folder.
pdf_files == <<"a.pdf", "b.pdf">>
NumPdfs == Len(pdf_files)
\* Largest len(doc) a PDF may have.
MaxPages == 3
\* Conversion calls the service answers for one page before the model stops
\* observing that page (the code itself has no such limit, see Attempt).
MaxCalls == 4
\* Largest number of elements partition_md finds in one markdown file.
MaxElements == 2
\* Non-successful responses (raised errors, empty bodies, bodies without the
\* section) the conversion service gives in one run: enough to spend every
\* observed call of one page on failures.
MaxFailures == MaxCalls
MaxRuns == 2
MaxDirFiles == 2

\* Messages one conversation sends; objects of the Manuals collection the
\* Query Engine runs against.
MaxTurns == 2
MaxManuals == 11

\* ----------------------------------------------------------------- Segmenter

VARIABLES
    pdf,              \* index into pdf_files of the PDF being processed
    seg_pc,           \* position in main(): open, page, while, finally, done
    doc_len,          \* len(doc) of the opened PDF
    page_num,         \* loop variable of `for page_num in range(len(doc))`
    retry_count,
    success,
    pdf_results,      \* [pages |-> sequence of page records, error |-> ...]
    markdown_output,
    attempts,         \* outcomes of the conversion calls of the page in the while loop
    failures,         \* non-successful responses given so far in the run
    files             \* output folder: per PDF, the two artifacts or NotWritten

VARIABLES
    md_file,          \* index into md_files of the file being processed
    chunk_pc,         \* position in process_document() / main()
    elements,         \* what partition_md returned
    tables,           \* the Table elements pulled out of elements
    chunks,           \* what chunk_by_title returned
    idx,              \* position of the running for loop in tables / chunks
    uuids,            \* number of ids uuid.uuid4() has handed out
    chunk_dirs,       \* output/chunks: per document directory, name -> content
    result,           \* what process_document returned
    success_count,
    enrich_raised,    \* contents whose enrichment call raised, current file
    classify_reply,   \* per file, what its classification call did
    source,           \* per file, what the libraries make of its content
    runs_left         \* runs of main() the operator still makes after this one

VARIABLES
    emb_pc,           \* position in the Embedder's main(): subdir, files, embed, done
    emb_dir,          \* index of the subfolder of output/chunks being processed
    emb_todo,         \* names of json_files the file loop has not reached yet
    json_file,        \* name of the file the loop is at
    retry,            \* loop variable of `for retry in range(max_retries)`
    retry_delay,
    processed_count,
    error_count,
    emb_dirs,         \* output/embeddings: per document directory, its files
    emb_calls,        \* responses of the embedding calls made for json_file
    slept,            \* arguments of the time.sleep calls made for json_file
    embed_log,        \* <<subfolder, file>> pairs an embedding call was made for
    emb_skipped       \* subfolders left because of a file-system error

VARIABLES
    index_pc,         \* position in load_embeddings(): subdir, files, done
    index_dir,        \* index of the subfolder of output/embeddings being loaded
    metadata,         \* what load_metadata returned for the subfolder
    index_todo,       \* names of json_files the file loop has not reached yet
    total_files,
    successful_imports,
    collection,       \* the objects of the Manuals collection
    insert_log,       \* <<subfolder, file>> pairs collection.data.insert was called for
    index_runs_left   \* runs of the Indexer the operator still makes after this one

\* Query Engine (src/app.py), per conversation
VARIABLES
    user_session,     \* cl.user_session: the keys set and their values
    chat_pc,          \* where the conversation is: "closed", "idle", or the call chat() awaits
    entities,         \* local `entities` of chat()
    documents,        \* local `documents` of chat(): <<uuid, content>> pairs
    turns,            \* messages received so far
    extractions,      \* brands and models get_filters returned, turn after turn
    writes,           \* set("entities") calls of the turn in flight
    hybrid_calls      \* the collection.query.hybrid calls of the turn in flight

segVars == <<pdf, seg_pc, doc_len, page_num, retry_count, success,
             pdf_results, markdown_output, attempts, failures, files>>

chunkVars == <<md_file, chunk_pc, elements, tables, chunks, idx, uuids,
               chunk_dirs, result, success_count, enrich_raised,
               classify_reply, source, runs_left>>

\* What a step of one stage leaves alone: the state of the other stages.
embVars == <<emb_pc, emb_dir, emb_todo, json_file, retry, retry_delay,
             processed_count, error_count, emb_dirs, emb_calls, slept,
             embed_log, emb_skipped>>

indexVars == <<index_pc, index_dir, metadata, index_todo, total_files,
               successful_imports, collection, insert_log, index_runs_left>>

queryVars == <<user_session, chat_pc, entities, documents, turns,
               extractions, writes, hybrid_calls>>

notSegVars == <<chunkVars, embVars, indexVars, queryVars>>
notChunkVars == <<segVars, embVars, indexVars, queryVars>>
notEmbVars == <<segVars, chunkVars, indexVars, queryVars>>
notIndexVars == <<segVars, chunkVars, embVars, queryVars>>
notQueryVars == <<segVars, chunkVars, embVars, indexVars>>

max_retries == 3

NoError == "none"

\* Tokens of a response text.
OpenTag == "<markdown_output>"
CloseTag == "</markdown_output>"
Analysis == "pdf_analysis"
Newline == "\n"

\* Content the conversion service extracts from page p (1-based).
PageContent(p) == ToString(p)

\* The bodies the conversion service may return for page p:
\* nothing, prose without the section, an unterminated section, the section.
ResponseTexts(p) ==
    { <<>>,
      <<Analysis, PageContent(p)>>,
      <<Analysis, OpenTag, PageContent(p)>>,
      <<Analysis, OpenTag, PageContent(p), CloseTag>> }

\* What client.messages.create does: raise, or return a body.
ApiRaises == [raised |-> TRUE, text |-> <<>>]
ApiReturns(t) == [raised |-> FALSE, text |-> t]
CallOutcomes(p) == {ApiRaises} \cup {ApiReturns(t) : t \in ResponseTexts(p)}

SetMin(S) == CHOOSE x \in S : \A y \in S : x <= y

\* re.search(r'<tag>(.*?)</tag>', text, re.DOTALL): the leftmost opening tag
\* that has a closing tag after it, and the nearest such closing tag; group(1)
\* is what lies between.
SearchTag(text, open, close) ==
    LET opens == {i \in 1..Len(text) : text[i] = open /\
                     \E j \in (i+1)..Len(text) : text[j] = close}
    IN  IF opens = {}
        THEN [found |-> FALSE, group |-> <<>>]
        ELSE LET i == SetMin(opens)
                 j == SetMin({k \in (i+1)..Len(text) : text[k] = close})
             IN  [found |-> TRUE, group |-> SubSeq(text, i + 1, j - 1)]

SearchMarkdown(text) == SearchTag(text, OpenTag, CloseTag)

\* `not response.content or not response.content[0].text`
EmptyResponse(text) == text = <<>>

SuccessPage(pn, rc, text) ==
    [page_number |-> pn + 1, status |-> "success", retry_count |-> rc,
     detail |-> text]
WarningPage(pn, rc, text) ==
    [page_number |-> pn + 1, status |-> "warning", retry_count |-> rc,
     detail |-> text]
ErrorPage(pn, rc, msg) ==
    [page_number |-> pn + 1, status |-> "error", retry_count |-> rc,
     detail |-> msg]

\* The loop condition of `while retry_count < max_retries and not success`.
WhileCond(rc, succ) == rc < max_retries /\ ~succ

\* The `if match:` branch: record success, append the section, leave the loop.
MatchBranch_KeepsRetrying(rc, pages, md, pn, text) ==
    [retry_count |-> rc + 1,
     success |-> FALSE,
     pages |-> Append(pages, SuccessPage(pn, rc, text)),
     markdown |-> md \o SearchMarkdown(text).group \o <<Newline>>]

MatchBranch(rc, pages, md, pn, text) ==
    [retry_count |-> rc,
     success |-> TRUE,
     pages |-> Append(pages, SuccessPage(pn, rc, text)),
     markdown |-> md \o SearchMarkdown(text).group \o <<Newline>>]

\* The `else:` branch: a warning on the last retry, and always one more retry
\* counted.
NoMatchBranch_NoIncrementOnLast(rc, pages, md, pn, text) ==
    [retry_count |-> IF rc = max_retries - 1 THEN rc ELSE rc + 1,
     success |-> FALSE,
     pages |-> IF rc = max_retries - 1
               THEN Append(pages, WarningPage(pn, rc, text))
               ELSE pages,
     markdown |-> md]

NoMatchBranch(rc, pages, md, pn, text) ==
    [retry_count |-> rc + 1,
     success |-> FALSE,
     pages |-> IF rc = max_retries - 1
               THEN Append(pages, WarningPage(pn, rc, text))
               ELSE pages,
     markdown |-> md]

\* `except Exception as api_error:` an error record on the last retry and
\* retry_count left as it is; otherwise one more retry counted.
ExceptBranch(rc, pages, md, pn, msg) ==
    [retry_count |-> IF rc = max_retries - 1 THEN rc ELSE rc + 1,
     success |-> FALSE,
     pages |-> IF rc = max_retries - 1
               THEN Append(pages, ErrorPage(pn, rc, msg))
               ELSE pages,
     markdown |-> md]

\* One iteration of the while body for a given outcome of the call.
Iteration(out, rc, pages, md, pn) ==
    IF out.raised
    THEN ExceptBranch(rc, pages, md, pn, "api_error")
    ELSE IF EmptyResponse(out.text)
    THEN ExceptBranch(rc, pages, md, pn, "Empty response received from Claude API")
    ELSE IF SearchMarkdown(out.text).found
    THEN MatchBranch(rc, pages, md, pn, out.text)
    ELSE NoMatchBranch(rc, pages, md, pn, out.text)

\* A call that did not end in a recorded success.
Failed(out) == out.raised \/ ~SearchMarkdown(out.text).found

FreshResults == [pages |-> <<>>, error |-> NoError]

\* A PDF whose <name>.md and <name>_results.json do not exist yet.
NotWritten == [written |-> FALSE, md |-> <<>>, results |-> FreshResults]

InitSeg ==
    /\ pdf = 1
    /\ seg_pc = "open"
    /\ doc_len = 0
    /\ page_num = 0
    /\ retry_count = 0
    /\ success = FALSE
    /\ pdf_results = FreshResults
    /\ markdown_output = <<>>
    /\ attempts = <<>>
    /\ failures = 0
    /\ files = [i \in 1..NumPdfs |-> NotWritten]

\* doc = fitz.open(file_path) returns a document of some length.
OpenPdf ==
    /\ seg_pc = "open"
    /\ \E n \in 0..MaxPages : doc_len' = n
    /\ page_num' = 0
    /\ seg_pc' = "page"
    /\ UNCHANGED <<pdf, retry_count, success, pdf_results, markdown_output,
                   attempts, failures, files>>
    /\ UNCHANGED notSegVars

\* fitz.open raises: `except Exception as e` records it, then the finally
\* block runs.
OpenPdfRaises ==
    /\ seg_pc = "open"
    /\ pdf_results' = [pdf_results EXCEPT !.error = "open"]
    /\ seg_pc' = "finally"
    /\ UNCHANGED <<pdf, doc_len, page_num, retry_count, success,
                   markdown_output, attempts, failures, files>>
    /\ UNCHANGED notSegVars

\* Top of the for body: the page is isolated and encoded, the retry state is
\* reset.
StartPage ==
    /\ seg_pc = "page"
    /\ page_num < doc_len
    /\ retry_count' = 0
    /\ success' = FALSE
    /\ seg_pc' = "while"
    /\ UNCHANGED <<pdf, doc_len, page_num, pdf_results, markdown_output,
                   attempts, failures, files>>
    /\ UNCHANGED notSegVars

\* Isolating the page (fitz.open(), insert_pdf, tobytes) raises outside the
\* inner try: the outer handler ends the PDF.
StartPageRaises ==
    /\ seg_pc = "page"
    /\ page_num < doc_len
    /\ pdf_results' = [pdf_results EXCEPT !.error = "page"]
    /\ seg_pc' = "finally"
    /\ UNCHANGED <<pdf, doc_len, page_num, retry_count, success,
                   markdown_output, attempts, failures, files>>
    /\ UNCHANGED notSegVars

\* range(len(doc)) is exhausted.
EndPages ==
    /\ seg_pc = "page"
    /\ page_num = doc_len
    /\ seg_pc' = "finally"
    /\ UNCHANGED <<pdf, doc_len, page_num, retry_count, success, pdf_results,
                   markdown_output, attempts, failures, files>>
    /\ UNCHANGED notSegVars

\* One pass through the while body: the conversion call and what follows it
\* (the time.sleep calls change no state).
Attempt ==
    /\ seg_pc = "while"
    /\ WhileCond(retry_count, success)
    /\ Len(attempts) < MaxCalls
    /\ \E out \in CallOutcomes(page_num + 1) :
         /\ Failed(out) => failures < MaxFailures
         /\ LET r == Iteration(out, retry_count, pdf_results.pages,
                               markdown_output, page_num)
            IN  /\ retry_count' = r.retry_count
                /\ success' = r.success
                /\ pdf_results' = [pdf_results EXCEPT !.pages = r.pages]
                /\ markdown_output' = r.markdown
         /\ attempts' = Append(attempts, out)
         /\ failures' = IF Failed(out) THEN failures + 1 ELSE failures
    /\ UNCHANGED <<pdf, seg_pc, doc_len, page_num, files>>
    /\ UNCHANGED notSegVars

\* The while condition is false: on to the next page.
ExitWhile ==
    /\ seg_pc = "while"
    /\ ~WhileCond(retry_count, success)
    /\ page_num' = page_num + 1
    /\ seg_pc' = "page"
    /\ attempts' = <<>>
    /\ UNCHANGED <<pdf, doc_len, retry_count, success, pdf_results,
                   markdown_output, failures, files>>
    /\ UNCHANGED notSegVars

\* The finally block writes <name>.md and <name>_results.json; the for loop
\* over pdf_files then takes the next PDF with fresh containers, or ends.
SaveResults ==
    /\ seg_pc = "finally"
    /\ files' = [files EXCEPT ![pdf] =
                    [written |-> TRUE, md |-> markdown_output,
                     results |-> pdf_results]]
    /\ IF pdf < NumPdfs
       THEN /\ pdf' = pdf + 1
            /\ seg_pc' = "open"
            /\ pdf_results' = FreshResults
            /\ markdown_output' = <<>>
       ELSE /\ seg_pc' = "done"
            /\ UNCHANGED <<pdf, pdf_results, markdown_output>>
    /\ UNCHANGED <<doc_len, page_num, retry_count, success, attempts,
                   failures>>
    /\ UNCHANGED notSegVars

NextSeg ==
    \/ OpenPdf
    \/ OpenPdfRaises
    \/ StartPage
    \/ StartPageRaises
    \/ EndPages
    \/ Attempt
    \/ ExitWhile
    \/ SaveResults


\* ------------------------------------------------------------------- Chunker

\* The markdown files found in output/extractions.
md_files == <<"a.md", "b.md">>
NumMd == Len(md_files)

\* Element categories partition_md gives; chunk categories chunk_by_title
\* gives.
ElementCategories == {"NarrativeText", "Table"}

\* The k-th element of a file: its category and its text.
Element(cat, k) == [category |-> cat, text |-> <<ToString(k)>>]

\* What partition_md may return: up to MaxElements elements.
ElementLists ==
    UNION { { [k \in 1..n |-> Element(cats[k], k)] :
                cats \in [1..n -> ElementCategories] } : n \in 0..MaxElements }

\* table.metadata.text_as_html
TextAsHtml(text) == <<"<table>">> \o text \o <<"</table>">>

Composite(text) == [category |-> "CompositeElement", text |-> text]

\* chunk_by_title(elements, ...): flowing text is grouped into
\* CompositeElement chunks (an element joins the chunk that follows it or
\* starts its own, as the size band decides); a table that fits max_characters
\* stays one Table chunk, a larger one is split into TableChunk pieces.
RECURSIVE ChunkByTitle(_)
ChunkByTitle(els) ==
    IF els = <<>> THEN {<<>>}
    ELSE LET e == Head(els)
             rest == ChunkByTitle(Tail(els))
         IN  IF e.category = "Table"
             THEN { <<[category |-> "Table", text |-> e.text]>> \o r :
                       r \in rest }
                  \cup
                  { <<[category |-> "TableChunk", text |-> e.text],
                      [category |-> "TableChunk", text |-> e.text]>> \o r :
                       r \in rest }
             ELSE { <<Composite(e.text)>> \o r : r \in rest }
                  \cup
                  { <<Composite(e.text \o Head(r).text)>> \o Tail(r) :
                       r \in {x \in rest : x # <<>> /\
                                Head(x).category = "CompositeElement"} }

\* `tables = [element for element in elements if category == "Table"]`
TablesOf(els) == SelectSeq(els, LAMBDA e : e.category = "Table")

\* `if chunk.category in ["Table", "TableChunk"]: continue`
SkipChunk_TableOnly(category) == category = "Table"

SkipChunk(category) == category \in {"Table", "TableChunk"}

\* The enrichment call either raises or returns a context for the chunk.
EnrichRaises == [raised |-> TRUE, text |-> ""]
EnrichReturns == [raised |-> FALSE, text |-> "context"]
EnrichOutcomes == {EnrichRaises, EnrichReturns}

\* situate_context(client, doc, chunk): the response text, or the placeholder
\* when anything in the call raised.
situate_context_EmptyOnError(out) ==
    IF out.raised THEN "" ELSE out.text

situate_context(out) ==
    IF out.raised THEN "Error generating context" ELSE out.text

\* str(uuid.uuid4()) for the n-th id handed out (a fresh value on every call),
\* and the file named after it.
Uuid_SameForAll(n) == "uuid-0"

Uuid(n) == "uuid-" \o ToString(n)
FileName(id) == id \o ".json"
MetadataName == "metadata.json"

TableChunkData(id, file, table, ctx) ==
    [id |-> id, source_file |-> file, category |-> "Table",
     content |-> table.text, contextualization |-> ctx,
     raw_table |-> TextAsHtml(table.text)]

ChunkData(id, file, chunk, ctx) ==
    [id |-> id, source_file |-> file, category |-> chunk.category,
     content |-> chunk.text, contextualization |-> ctx]

\* open(path, 'w') + json.dump: the file of that name now holds data.
WriteFile(dir, name, data) ==
    {f \in dir : f.name # name} \cup {[name |-> name, data |-> data]}

\* Tokens of a classification response.
JsonOpen == "<json_output>"
JsonClose == "</json_output>"
Blank == " "
JsonText == "{\"brand\": \"Moog\", \"model\": \"Sub 37\", ...}"
\* A string whose letters matter later is the sequence of its characters.
JsonValue ==
    [brand |-> <<"M", "o", "o", "g">>,
     model |-> <<"S", "u", "b", " ", "3", "7">>,
     product_type |-> <<"S", "y", "n", "t", "h">>,
     keywords |-> << <<"B", "a", "s", "s">>, <<"m", "o", "n", "o">> >>]
NotJson == "Here is the JSON you asked for"

empty_object ==
    [brand |-> <<>>, model |-> <<>>, product_type |-> <<>>, keywords |-> <<>>]

\* str.strip() on a token sequence.
RECURSIVE Strip(_)
Strip(seq) ==
    IF seq = <<>> THEN seq
    ELSE IF Head(seq) = Blank THEN Strip(Tail(seq))
    ELSE IF seq[Len(seq)] = Blank THEN Strip(SubSeq(seq, 1, Len(seq) - 1))
    ELSE seq

\* json.loads: the value of a JSON text, or JSONDecodeError.
JsonLoads(seq) ==
    IF seq = <<JsonText>>
    THEN [error |-> FALSE, value |-> JsonValue]
    ELSE [error |-> TRUE, value |-> empty_object]

\* What the classification call may do: raise, or return one of these bodies:
\* no section, a section that is not JSON, an empty section, a JSON section.
ClassifyRaises == [raised |-> TRUE, text |-> <<>>]
ClassifyTexts ==
    { <<Analysis>>,
      <<Analysis, JsonOpen, NotJson, JsonClose>>,
      <<JsonOpen, JsonClose>>,
      <<Analysis, JsonOpen, Blank, JsonText, Blank, JsonClose>> }
ClassifyOutcomes ==
    {ClassifyRaises} \cup {[raised |-> FALSE, text |-> t] : t \in ClassifyTexts}

NoReply == [raised |-> FALSE, text |-> <<"no call yet">>]

\* A classify_content that lets a bad section through as null.
NullValue == [null |-> TRUE]
classify_content_NullOnBadJson(out) ==
    IF out.raised THEN empty_object
    ELSE LET match == SearchTag(out.text, JsonOpen, JsonClose)
         IN  IF match.found
             THEN IF JsonLoads(Strip(match.group)).error
                  THEN NullValue
                  ELSE JsonLoads(Strip(match.group)).value
             ELSE NullValue

\* classify_content(client, doc): the parsed section, or the empty object when
\* the call raised, the section is missing or it is not JSON.
classify_content(out) ==
    IF out.raised THEN empty_object
    ELSE LET match == SearchTag(out.text, JsonOpen, JsonClose)
         IN  IF match.found
             THEN IF JsonLoads(Strip(match.group)).error
                  THEN empty_object
                  ELSE JsonLoads(Strip(match.group)).value
             ELSE empty_object

\* The content of a markdown file is what partition_md and chunk_by_title
\* make of it: unknown until the file is first read, the same on every later
\* reading of the unchanged file.
Unread == [parsed |-> FALSE, elements |-> <<>>, grouped |-> FALSE, chunks |-> <<>>]

Readings(src) == IF src.parsed THEN {src.elements} ELSE ElementLists

Groupings(src, els) == IF src.grouped THEN {src.chunks} ELSE ChunkByTitle(els)

\* What a reading found is kept for the readings of the runs still to come.
Remember(src) == IF runs_left > 0 THEN src ELSE source

InitChunk ==
    /\ md_file = 1
    /\ chunk_pc = "partition"
    /\ elements = <<>>
    /\ tables = <<>>
    /\ chunks = <<>>
    /\ idx = 1
    /\ uuids = 0
    /\ chunk_dirs = [d \in 1..NumMd |-> {}]
    /\ result = FALSE
    /\ success_count = 0
    /\ enrich_raised = {}
    /\ classify_reply = [d \in 1..NumMd |-> NoReply]
    /\ source = [d \in 1..NumMd |-> Unread]

\* The file is read and partitioned, the tables are pulled out.
Partition ==
    /\ chunk_pc = "partition"
    /\ \E els \in Readings(source[md_file]) :
         /\ elements' = els
         /\ tables' = TablesOf(els)
         /\ source' = Remember([source EXCEPT ![md_file] =
                         [@ EXCEPT !.parsed = TRUE, !.elements = els]])
    /\ idx' = 1
    /\ chunk_pc' = "tables"
    /\ UNCHANGED <<md_file, chunks, uuids, chunk_dirs, result, success_count,
                   enrich_raised, classify_reply,
                   runs_left>>
    /\ UNCHANGED notChunkVars

\* Reading or partitioning the file raises: process_document returns False.
PartitionRaises ==
    /\ chunk_pc = "partition"
    /\ result' = FALSE
    /\ chunk_pc' = "returned"
    /\ UNCHANGED <<md_file, elements, tables, chunks, idx, uuids, chunk_dirs,
                   success_count, enrich_raised, classify_reply,
                   source, runs_left>>
    /\ UNCHANGED notChunkVars

\* One pass of `for table in tables`: id, enrichment, file.
TableStep ==
    /\ chunk_pc = "tables"
    /\ idx <= Len(tables)
    /\ \E out \in EnrichOutcomes :
         LET id == Uuid(uuids + 1)
             data == TableChunkData(id, md_files[md_file], tables[idx],
                                    situate_context(out))
         IN  /\ chunk_dirs' = [chunk_dirs EXCEPT ![md_file] =
                                  WriteFile(@, FileName(id), data)]
             /\ enrich_raised' =
                  IF out.raised
                  THEN enrich_raised \cup
                         {[category |-> "Table", content |-> tables[idx].text]}
                  ELSE enrich_raised
    /\ uuids' = uuids + 1
    /\ idx' = idx + 1
    /\ UNCHANGED <<md_file, chunk_pc, elements, tables, chunks, result,
                   success_count, classify_reply,
                   source, runs_left>>
    /\ UNCHANGED notChunkVars

\* The table loop is over: chunk_by_title groups the elements.
ChunkByTitleCall ==
    /\ chunk_pc = "tables"
    /\ idx > Len(tables)
    /\ \E cs \in Groupings(source[md_file], elements) :
         /\ chunks' = cs
         /\ source' = Remember([source EXCEPT ![md_file] =
                         [@ EXCEPT !.grouped = TRUE, !.chunks = cs]])
    /\ idx' = 1
    /\ chunk_pc' = "chunks"
    /\ UNCHANGED <<md_file, elements, tables, uuids, chunk_dirs, result,
                   success_count, enrich_raised, classify_reply,
                   runs_left>>
    /\ UNCHANGED notChunkVars

\* chunk_by_title raises: process_document returns False, the table chunks
\* already written stay.
ChunkByTitleRaises ==
    /\ chunk_pc = "tables"
    /\ idx > Len(tables)
    /\ result' = FALSE
    /\ chunk_pc' = "returned"
    /\ UNCHANGED <<md_file, elements, tables, chunks, idx, uuids, chunk_dirs,
                   success_count, enrich_raised, classify_reply,
                   source, runs_left>>
    /\ UNCHANGED notChunkVars

\* One pass of `for chunk in chunks` over a table chunk: continue.
ChunkSkip ==
    /\ chunk_pc = "chunks"
    /\ idx <= Len(chunks)
    /\ SkipChunk(chunks[idx].category)
    /\ idx' = idx + 1
    /\ UNCHANGED <<md_file, chunk_pc, elements, tables, chunks, uuids, chunk_dirs,
                   result, success_count, enrich_raised, classify_reply,
                   source, runs_left>>
    /\ UNCHANGED notChunkVars

\* One pass of `for chunk in chunks` over any other chunk: id, enrichment,
\* file.
ChunkStep ==
    /\ chunk_pc = "chunks"
    /\ idx <= Len(chunks)
    /\ ~SkipChunk(chunks[idx].category)
    /\ \E out \in EnrichOutcomes :
         LET id == Uuid(uuids + 1)
             data == ChunkData(id, md_files[md_file], chunks[idx],
                               situate_context(out))
         IN  /\ chunk_dirs' = [chunk_dirs EXCEPT ![md_file] =
                                  WriteFile(@, FileName(id), data)]
             /\ enrich_raised' =
                  IF out.raised
                  THEN enrich_raised \cup
                         {[category |-> chunks[idx].category,
                           content |-> chunks[idx].text]}
                  ELSE enrich_raised
    /\ uuids' = uuids + 1
    /\ idx' = idx + 1
    /\ UNCHANGED <<md_file, chunk_pc, elements, tables, chunks, result,
                   success_count, classify_reply,
                   source, runs_left>>
    /\ UNCHANGED notChunkVars

\* The chunk loop is over: the document is classified, metadata.json is
\* written and process_document returns True.
Classify ==
    /\ chunk_pc = "chunks"
    /\ idx > Len(chunks)
    /\ \E out \in ClassifyOutcomes :
         /\ chunk_dirs' = [chunk_dirs EXCEPT ![md_file] =
                              WriteFile(@, MetadataName, classify_content(out))]
         /\ classify_reply' = [classify_reply EXCEPT ![md_file] = out]
    /\ result' = TRUE
    /\ chunk_pc' = "returned"
    /\ UNCHANGED <<md_file, elements, tables, chunks, idx, uuids, success_count,
                   enrich_raised,
                   source, runs_left>>
    /\ UNCHANGED notChunkVars

\* main(): count the result, take the next file or print the summary.
NextFile ==
    /\ chunk_pc = "returned"
    /\ success_count' = IF result THEN success_count + 1 ELSE success_count
    /\ IF md_file < NumMd
       THEN /\ md_file' = md_file + 1
            /\ chunk_pc' = "partition"
       ELSE /\ chunk_pc' = "done"
            /\ UNCHANGED md_file
    /\ elements' = <<>>
    /\ tables' = <<>>
    /\ chunks' = <<>>
    /\ idx' = 1
    /\ enrich_raised' = {}
    /\ UNCHANGED <<uuids, chunk_dirs, result, classify_reply,
                   source, runs_left>>
    /\ UNCHANGED notChunkVars

\* The operator starts main() once more: the markdown files and the output
\* folder are as the run before left them.
Rerun ==
    /\ chunk_pc = "done"
    /\ runs_left > 0
    /\ runs_left' = runs_left - 1
    /\ md_file' = 1
    /\ chunk_pc' = "partition"
    /\ success_count' = 0
    /\ classify_reply' = [d \in 1..NumMd |-> NoReply]
    /\ UNCHANGED <<elements, tables, chunks, idx, uuids, chunk_dirs, result,
                   enrich_raised, source>>
    /\ UNCHANGED notChunkVars

NextChunk ==
    \/ Partition
    \/ PartitionRaises
    \/ TableStep
    \/ ChunkByTitleCall
    \/ ChunkByTitleRaises
    \/ ChunkSkip
    \/ ChunkStep
    \/ Classify
    \/ NextFile

\* ------------------------------------------------------------------ Embedder

embed_max_retries == 3
initial_retry_delay == 2

\* `retry_delay *= 2`
NextDelay_Same(delay) == delay

NextDelay(delay) == delay * 2

\* A file whose text is not JSON.
InvalidJson == [invalid_json |-> TRUE]

\* json.load(f): the value in the file, or JSONDecodeError.
JsonLoad(data) == [error |-> data = InvalidJson, value |-> data]

\* The content of the file of that name in a directory.
FileData(dir, name) == (CHOOSE f \in dir : f.name = name).data

\* `if 'content' not in data or 'contextualization' not in data`
LacksFields_OnlyBoth(data) ==
    "content" \notin DOMAIN data /\ "contextualization" \notin DOMAIN data

LacksFields(data) ==
    "content" \notin DOMAIN data \/ "contextualization" \notin DOMAIN data

\* `documents = [data['content'] + "\n\n" + data['contextualization']]`
Documents_ContentOnly(data) == <<data.content>>

Documents(data) == <<data.content \o <<"\n\n", data.contextualization>>>>

\* The vector the embedding service computes for a text: it is not empty and
\* it is the text's own.
VectorFor(doc) == <<[of |-> doc]>>

\* `except voyageai.error.RateLimitError`: the error the retry loop catches.
IsRateLimit_AnyApiError(resp) == resp.raised \in {"RateLimitError", "VoyageError"}

IsRateLimit(resp) == resp.raised = "RateLimitError"

\* embedding_client.embed(documents, ...) raises, or returns a response that
\* has no `embeddings`, an empty list, or one vector per document.
RateLimitError ==
    [raised |-> "RateLimitError", has_embeddings |-> FALSE, embeddings |-> <<>>]
VoyageError ==
    [raised |-> "VoyageError", has_embeddings |-> FALSE, embeddings |-> <<>>]
OtherError ==
    [raised |-> "Exception", has_embeddings |-> FALSE, embeddings |-> <<>>]
NoPayload ==
    [raised |-> "none", has_embeddings |-> FALSE, embeddings |-> <<>>]
EmptyPayload ==
    [raised |-> "none", has_embeddings |-> TRUE, embeddings |-> <<>>]
Embedded(docs) ==
    [raised |-> "none", has_embeddings |-> TRUE,
     embeddings |-> [i \in 1..Len(docs) |-> VectorFor(docs[i])]]
EmbedResponses(docs) ==
    {RateLimitError, VoyageError, OtherError, NoPayload, EmptyPayload,
     Embedded(docs)}

\* `not hasattr(embedding_response, 'embeddings') or not embedding_response.embeddings`
LacksPayload(resp) == ~resp.has_embeddings \/ resp.embeddings = <<>>

\* `data['embeddings'] = embeddings`
WithEmbeddings_Renamed(data, embeddings) ==
    [k \in DOMAIN data \cup {"embedding"} |->
        IF k = "embedding" THEN embeddings ELSE data[k]]

WithEmbeddings(data, embeddings) ==
    [k \in DOMAIN data \cup {"embeddings"} |->
        IF k = "embeddings" THEN embeddings ELSE data[k]]

OutputName_OneFile(data, name) == FileName("embedded")

\* The output file is named after the id, or after the input file.
OutputName(data, name) ==
    IF "id" \in DOMAIN data THEN FileName(data.id) ELSE name

\* `for json_file in json_files` takes the files in the order os.listdir gave
\* them: some order, the same for the same names.
ListedNext(todo) == CHOOSE n \in todo : TRUE

InitEmbed ==
    /\ emb_pc = "subdir"
    /\ emb_dir = 1
    /\ emb_todo = {}
    /\ json_file = ""
    /\ retry = 0
    /\ retry_delay = initial_retry_delay
    /\ processed_count = 0
    /\ error_count = 0
    /\ emb_dirs = [d \in 1..NumMd |-> {}]
    /\ emb_calls = <<>>
    /\ slept = <<>>
    /\ embed_log = {}
    /\ emb_skipped = {}

\* `for subdir_name in subdirs` takes the next subfolder, or the loop is over
\* and the summary is logged.
NextSubdir ==
    IF emb_dir < NumMd
    THEN emb_dir' = emb_dir + 1 /\ emb_pc' = "subdir"
    ELSE emb_dir' = emb_dir /\ emb_pc' = "done"

\* The output folder is made and the JSON files of the subfolder are listed.
\* The stages are run one after the other: the Embedder when the Chunker is
\* done.
EmbSubdir ==
    /\ chunk_pc = "done"
    /\ emb_pc = "subdir"
    /\ emb_todo' = {f.name : f \in chunk_dirs[emb_dir]}
    /\ emb_pc' = "files"
    /\ UNCHANGED <<emb_dir, json_file, retry, retry_delay, processed_count,
                   error_count, emb_dirs, emb_calls, slept, embed_log,
                   emb_skipped>>
    /\ UNCHANGED notEmbVars

\* mkdir or listdir raises: the subfolder is left.
EmbSubdirFails ==
    /\ chunk_pc = "done"
    /\ emb_pc = "subdir"
    /\ emb_skipped' = emb_skipped \cup {emb_dir}
    /\ NextSubdir
    /\ UNCHANGED <<emb_todo, json_file, retry, retry_delay, processed_count,
                   error_count, emb_dirs, emb_calls, slept, embed_log>>
    /\ UNCHANGED notEmbVars

\* All files of the subfolder have been passed.
EmbNextSubdir ==
    /\ emb_pc = "files"
    /\ emb_todo = {}
    /\ NextSubdir
    /\ json_file' = ""
    /\ emb_calls' = <<>>
    /\ slept' = <<>>
    /\ UNCHANGED <<emb_todo, retry, retry_delay, processed_count, error_count,
                   emb_dirs, embed_log, emb_skipped>>
    /\ UNCHANGED notEmbVars

\* The loop is at metadata.json: it is loaded and dumped to the output
\* folder, or counted as an error when it is not JSON.
EmbMetadata ==
    /\ emb_pc = "files"
    /\ emb_todo # {}
    /\ ListedNext(emb_todo) = MetadataName
    /\ json_file' = MetadataName
    /\ emb_todo' = emb_todo \ {MetadataName}
    /\ LET loaded == JsonLoad(FileData(chunk_dirs[emb_dir], MetadataName))
       IN  IF loaded.error
           THEN /\ error_count' = error_count + 1
                /\ UNCHANGED <<processed_count, emb_dirs>>
           ELSE /\ emb_dirs' = [emb_dirs EXCEPT ![emb_dir] =
                                  WriteFile(@, MetadataName, loaded.value)]
                /\ processed_count' = processed_count + 1
                /\ UNCHANGED error_count
    /\ emb_calls' = <<>>
    /\ slept' = <<>>
    /\ UNCHANGED <<emb_pc, emb_dir, retry, retry_delay, embed_log, emb_skipped>>
    /\ UNCHANGED notEmbVars

\* The loop is at a chunk file that is not JSON.
EmbLoadFails ==
    /\ emb_pc = "files"
    /\ emb_todo # {}
    /\ \E n \in {ListedNext(emb_todo)} \ {MetadataName} :
         /\ JsonLoad(FileData(chunk_dirs[emb_dir], n)).error
         /\ json_file' = n
         /\ emb_todo' = emb_todo \ {n}
    /\ error_count' = error_count + 1
    /\ emb_calls' = <<>>
    /\ slept' = <<>>
    /\ UNCHANGED <<emb_pc, emb_dir, retry, retry_delay, processed_count,
                   emb_dirs, embed_log, emb_skipped>>
    /\ UNCHANGED notEmbVars

\* The loop is at a chunk file without content or contextualization.
EmbLacksFields ==
    /\ emb_pc = "files"
    /\ emb_todo # {}
    /\ \E n \in {ListedNext(emb_todo)} \ {MetadataName} :
         /\ ~JsonLoad(FileData(chunk_dirs[emb_dir], n)).error
         /\ LacksFields(FileData(chunk_dirs[emb_dir], n))
         /\ json_file' = n
         /\ emb_todo' = emb_todo \ {n}
    /\ error_count' = error_count + 1
    /\ emb_calls' = <<>>
    /\ slept' = <<>>
    /\ UNCHANGED <<emb_pc, emb_dir, retry, retry_delay, processed_count,
                   emb_dirs, embed_log, emb_skipped>>
    /\ UNCHANGED notEmbVars

\* The loop is at a chunk file with both fields: the retry loop is entered.
EmbPrepare ==
    /\ emb_pc = "files"
    /\ emb_todo # {}
    /\ \E n \in {ListedNext(emb_todo)} \ {MetadataName} :
         /\ ~JsonLoad(FileData(chunk_dirs[emb_dir], n)).error
         /\ ~LacksFields(FileData(chunk_dirs[emb_dir], n))
         /\ json_file' = n
         /\ emb_todo' = emb_todo \ {n}
    /\ retry' = 0
    /\ retry_delay' = initial_retry_delay
    /\ emb_pc' = "embed"
    /\ emb_calls' = <<>>
    /\ slept' = <<>>
    /\ UNCHANGED <<emb_dir, processed_count, error_count, emb_dirs, embed_log,
                   emb_skipped>>
    /\ UNCHANGED notEmbVars

\* The data of the file in the retry loop.
Data == FileData(chunk_dirs[emb_dir], json_file)

\* The call raises RateLimitError: sleep and take the next pass, or, in the
\* last pass, re-raise into `except VoyageError`.
EmbRateLimited ==
    /\ emb_pc = "embed"
    /\ \E resp \in EmbedResponses(Documents(Data)) :
         /\ IsRateLimit(resp)
         /\ emb_calls' = Append(emb_calls, resp)
    /\ embed_log' = embed_log \cup {<<emb_dir, json_file>>}
    /\ IF retry < embed_max_retries - 1
       THEN /\ slept' = Append(slept, retry_delay)
            /\ retry_delay' = NextDelay(retry_delay)
            /\ retry' = retry + 1
            /\ UNCHANGED <<emb_pc, error_count>>
       ELSE /\ error_count' = error_count + 1
            /\ emb_pc' = "files"
            /\ UNCHANGED <<slept, retry_delay, retry>>
    /\ UNCHANGED <<emb_dir, emb_todo, json_file, processed_count, emb_dirs,
                   emb_skipped>>
    /\ UNCHANGED notEmbVars

\* The call raises something else: `except VoyageError` / `except Exception`.
EmbRaises ==
    /\ emb_pc = "embed"
    /\ \E resp \in EmbedResponses(Documents(Data)) :
         /\ resp.raised # "none"
         /\ ~IsRateLimit(resp)
         /\ emb_calls' = Append(emb_calls, resp)
    /\ embed_log' = embed_log \cup {<<emb_dir, json_file>>}
    /\ error_count' = error_count + 1
    /\ emb_pc' = "files"
    /\ UNCHANGED <<emb_dir, emb_todo, json_file, retry, retry_delay,
                   processed_count, emb_dirs, slept, emb_skipped>>
    /\ UNCHANGED notEmbVars

\* The call returns a response without a vector.
EmbNoPayload ==
    /\ emb_pc = "embed"
    /\ \E resp \in EmbedResponses(Documents(Data)) :
         /\ resp.raised = "none"
         /\ LacksPayload(resp)
         /\ emb_calls' = Append(emb_calls, resp)
    /\ embed_log' = embed_log \cup {<<emb_dir, json_file>>}
    /\ error_count' = error_count + 1
    /\ emb_pc' = "files"
    /\ UNCHANGED <<emb_dir, emb_todo, json_file, retry, retry_delay,
                   processed_count, emb_dirs, slept, emb_skipped>>
    /\ UNCHANGED notEmbVars

\* The call returns a vector: it is added to the data and the data is saved.
EmbWrite ==
    /\ emb_pc = "embed"
    /\ \E resp \in EmbedResponses(Documents(Data)) :
         /\ resp.raised = "none"
         /\ ~LacksPayload(resp)
         /\ emb_calls' = Append(emb_calls, resp)
         /\ emb_dirs' = [emb_dirs EXCEPT ![emb_dir] =
                           WriteFile(@, OutputName(Data, json_file),
                                     WithEmbeddings(Data, resp.embeddings[1]))]
    /\ embed_log' = embed_log \cup {<<emb_dir, json_file>>}
    /\ processed_count' = processed_count + 1
    /\ emb_pc' = "files"
    /\ UNCHANGED <<emb_dir, emb_todo, json_file, retry, retry_delay,
                   error_count, slept, emb_skipped>>
    /\ UNCHANGED notEmbVars

NextEmbed ==
    \/ EmbSubdir
    \/ EmbSubdirFails
    \/ EmbNextSubdir
    \/ EmbMetadata
    \/ EmbLoadFails
    \/ EmbLacksFields
    \/ EmbPrepare
    \/ EmbRateLimited
    \/ EmbRaises
    \/ EmbNoPayload
    \/ EmbWrite

\* The output/chunks folder the Embedder may find: per document directory at
\* most MaxDirFiles chunk files (complete ones, ones without a field, one that
\* is not JSON) and a metadata.json that is there, broken or missing.
ChunkFilePool(d) ==
    {[name |-> FileName(Uuid(10 * d + 1)),
      data |-> TableChunkData(Uuid(10 * d + 1), md_files[d],
                              [text |-> <<"1">>], "context")],
     [name |-> FileName(Uuid(10 * d + 2)),
      data |-> ChunkData(Uuid(10 * d + 2), md_files[d], Composite(<<"2">>),
                         "Error generating context")],
     [name |-> FileName(Uuid(10 * d + 3)),
      data |-> [id |-> Uuid(10 * d + 3), source_file |-> md_files[d],
                category |-> "CompositeElement",
                contextualization |-> "context"]],
     [name |-> FileName(Uuid(10 * d + 4)),
      data |-> [id |-> Uuid(10 * d + 4), source_file |-> md_files[d],
                category |-> "CompositeElement", content |-> <<"4">>]],
     [name |-> FileName("part"),
      data |-> [source_file |-> md_files[d], category |-> "CompositeElement",
                content |-> <<"5">>, contextualization |-> "context"]],
     [name |-> FileName(Uuid(10 * d + 6)), data |-> InvalidJson]}

MetadataPool ==
    {{}, {[name |-> MetadataName, data |-> JsonValue]},
     {[name |-> MetadataName, data |-> InvalidJson]}}

ChunkDirPool(d) ==
    {fs \cup m : fs \in {x \in SUBSET ChunkFilePool(d) :
                           Cardinality(x) <= MaxDirFiles},
                 m \in MetadataPool}

\* The Chunker has run; the Embedder is started over its output folder.
ChunkerDone ==
    /\ md_file = NumMd
    /\ chunk_pc = "done"
    /\ elements = <<>>
    /\ tables = <<>>
    /\ chunks = <<>>
    /\ idx = 1
    /\ uuids = 0
    /\ result = FALSE
    /\ success_count = 0
    /\ enrich_raised = {}
    /\ classify_reply = [d \in 1..NumMd |-> NoReply]
    /\ source = [d \in 1..NumMd |-> Unread]
    /\ runs_left = 0

\* ------------------------------------------------------------------- Indexer

COLLECTION_NAME == "Manuals"

\* str.lower() on a string, character by character.
UpperLetters == <<"A", "B", "C", "D", "E", "F", "G", "H", "I", "J", "K", "L", "M",
                  "N", "O", "P", "Q", "R", "S", "T", "U", "V", "W", "X", "Y", "Z">>
LowerLetters == <<"a", "b", "c", "d", "e", "f", "g", "h", "i", "j", "k", "l", "m",
                  "n", "o", "p", "q", "r", "s", "t", "u", "v", "w", "x", "y", "z">>

LowerChar(c) ==
    IF \E i \in 1..Len(UpperLetters) : UpperLetters[i] = c
    THEN LowerLetters[CHOOSE i \in 1..Len(UpperLetters) : UpperLetters[i] = c]
    ELSE c

Lower_Same(str) == str

Lower(str) == [i \in 1..Len(str) |-> LowerChar(str[i])]

\* ",".join(list)
RECURSIVE Join(_)
Join(list) ==
    IF list = <<>> THEN <<>>
    ELSE IF Len(list) = 1 THEN Head(list)
    ELSE Head(list) \o <<",">> \o Join(Tail(list))

\* The empty JSON object.
EmptyDict == <<>>

\* load_metadata(metadata_file): the value in the file; {} when the file is
\* missing or is not JSON.
load_metadata_DefaultObject(dir) ==
    IF \A f \in dir : f.name # MetadataName THEN empty_object
    ELSE IF JsonLoad(FileData(dir, MetadataName)).error THEN empty_object
    ELSE JsonLoad(FileData(dir, MetadataName)).value

load_metadata(dir) ==
    IF \A f \in dir : f.name # MetadataName THEN EmptyDict
    ELSE IF JsonLoad(FileData(dir, MetadataName)).error THEN EmptyDict
    ELSE JsonLoad(FileData(dir, MetadataName)).value

\* `not metadata`
Falsy_NonEmpty(value) == value # EmptyDict

Falsy_Never(value) == FALSE

Falsy(value) == value = EmptyDict

\* metadata.get(key, "")
Get(dict, key) == IF key \in DOMAIN dict THEN dict[key] ELSE <<>>

\* `all(key in data for key in ["id", "embeddings", "content"])`
HasRequired(data) ==
    \A key \in {"id", "embeddings", "content"} : key \in DOMAIN data

\* The properties of the object inserted for a chunk; the keywords (a list
\* whenever the model has them) are joined and added when the metadata has
\* them.
Properties(data, meta) ==
    [k \in {"content", "doc_type", "brand", "model", "product_type"} \cup
           (IF "keywords" \in DOMAIN meta THEN {"keywords"} ELSE {}) |->
        CASE k = "content" -> data.content
          [] k = "doc_type" -> "chunk"
          [] k = "keywords" -> Lower(Join(meta.keywords))
          [] OTHER -> Lower(Get(meta, k))]

\* The files the loop has not reached once it has taken the next one.
Rest_None(todo) == {}

Rest(todo) == todo \ {ListedNext(todo)}

InitIndex ==
    /\ index_pc = "subdir"
    /\ index_dir = 1
    /\ metadata = EmptyDict
    /\ index_todo = {}
    /\ total_files = 0
    /\ successful_imports = 0
    /\ collection = {}
    /\ insert_log = {}

\* `for subdir_name in os.listdir(root_folder)` takes the next subfolder, or
\* the loop is over and the summary is logged.
IndexNext ==
    IF index_dir < NumMd
    THEN index_dir' = index_dir + 1 /\ index_pc' = "subdir"
    ELSE index_dir' = index_dir /\ index_pc' = "done"

\* The metadata of the subfolder is loaded and its JSON files are listed. The
\* stages are run one after the other: the Indexer when the Embedder is done.
IndexSubdir ==
    /\ emb_pc = "done"
    /\ index_pc = "subdir"
    /\ ~Falsy(load_metadata(emb_dirs[index_dir]))
    /\ metadata' = load_metadata(emb_dirs[index_dir])
    /\ index_todo' = {f.name : f \in emb_dirs[index_dir]} \ {MetadataName}
    /\ index_pc' = "files"
    /\ UNCHANGED <<index_dir, total_files, successful_imports, collection,
                   insert_log>>
    /\ UNCHANGED index_runs_left
    /\ UNCHANGED notIndexVars

\* load_metadata returned nothing: the subfolder is skipped.
IndexSkipSubdir ==
    /\ emb_pc = "done"
    /\ index_pc = "subdir"
    /\ Falsy(load_metadata(emb_dirs[index_dir]))
    /\ metadata' = load_metadata(emb_dirs[index_dir])
    /\ IndexNext
    /\ UNCHANGED <<index_todo, total_files, successful_imports, collection,
                   insert_log>>
    /\ UNCHANGED index_runs_left
    /\ UNCHANGED notIndexVars

\* All files of the subfolder have been passed.
IndexNextSubdir ==
    /\ index_pc = "files"
    /\ index_todo = {}
    /\ IndexNext
    /\ UNCHANGED <<metadata, index_todo, total_files, successful_imports,
                   collection, insert_log>>
    /\ UNCHANGED index_runs_left
    /\ UNCHANGED notIndexVars

\* The data of the file the loop takes next.
Record == FileData(emb_dirs[index_dir], ListedNext(index_todo))

\* The file is not JSON: logged, the loop goes on.
IndexLoadFails ==
    /\ index_pc = "files"
    /\ index_todo # {}
    /\ JsonLoad(Record).error
    /\ total_files' = total_files + 1
    /\ index_todo' = Rest(index_todo)
    /\ UNCHANGED <<index_pc, index_dir, metadata, successful_imports,
                   collection, insert_log>>
    /\ UNCHANGED index_runs_left
    /\ UNCHANGED notIndexVars

\* The record has no id, no embeddings or no content: logged, the loop goes on.
IndexMissingFields ==
    /\ index_pc = "files"
    /\ index_todo # {}
    /\ ~JsonLoad(Record).error
    /\ ~HasRequired(Record)
    /\ total_files' = total_files + 1
    /\ index_todo' = Rest(index_todo)
    /\ UNCHANGED <<index_pc, index_dir, metadata, successful_imports,
                   collection, insert_log>>
    /\ UNCHANGED index_runs_left
    /\ UNCHANGED notIndexVars

\* collection.data.insert creates the object under the uuid it is given.
Object(data, meta) ==
    [uuid |-> data.id, vector |-> data.embeddings,
     properties |-> Properties(data, meta)]

\* collection.data.insert takes a uuid the collection has no object under;
\* for a uuid it has, the store answers with an error and keeps its object.
Accepts_Any(objects, uuid) == TRUE

Accepts(objects, uuid) == \A o \in objects : o.uuid # uuid

\* The record is inserted.
IndexInsert ==
    /\ index_pc = "files"
    /\ index_todo # {}
    /\ ~JsonLoad(Record).error
    /\ HasRequired(Record)
    /\ Accepts(collection, Record.id)
    /\ total_files' = total_files + 1
    /\ insert_log' = insert_log \cup {<<index_dir, ListedNext(index_todo)>>}
    /\ collection' = collection \cup {Object(Record, metadata)}
    /\ successful_imports' = successful_imports + 1
    /\ index_todo' = Rest(index_todo)
    /\ UNCHANGED <<index_pc, index_dir, metadata>>
    /\ UNCHANGED index_runs_left
    /\ UNCHANGED notIndexVars

\* The insert call raises (the store is away, or it has an object under this
\* uuid already): logged, the loop goes on.
IndexInsertRaises ==
    /\ index_pc = "files"
    /\ index_todo # {}
    /\ ~JsonLoad(Record).error
    /\ HasRequired(Record)
    /\ total_files' = total_files + 1
    /\ insert_log' = insert_log \cup {<<index_dir, ListedNext(index_todo)>>}
    /\ index_todo' = Rest(index_todo)
    /\ UNCHANGED <<index_pc, index_dir, metadata, successful_imports,
                   collection>>
    /\ UNCHANGED index_runs_left
    /\ UNCHANGED notIndexVars

\* The values a metadata.json holds after the document was classified anew.
ChangedValue ==
    [brand |-> <<"K", "o", "r", "g">>, model |-> <<"M", "S", "2", "0">>,
     product_type |-> <<"S", "y", "n", "t", "h">>,
     keywords |-> << <<"B", "a", "s", "s">> >>]

\* What the output/embeddings folder may be when the Indexer is run again:
\* as it was, or with the metadata.json of some directories written anew.
Reclassified(dirs) ==
    {ds \in [1..NumMd -> UNION {{dirs[d], WriteFile(dirs[d], MetadataName, ChangedValue)} :
                                  d \in 1..NumMd}] :
        \A d \in 1..NumMd :
           \/ ds[d] = dirs[d]
           \/ /\ \E f \in dirs[d] : f.name = MetadataName
              /\ ds[d] = WriteFile(dirs[d], MetadataName, ChangedValue)}

\* The operator runs the Indexer once more: main() connects to the store,
\* finds the collection and calls load_embeddings again.
IndexRerun ==
    /\ index_pc = "done"
    /\ index_runs_left > 0
    /\ index_runs_left' = index_runs_left - 1
    /\ emb_dirs' \in Reclassified(emb_dirs)
    /\ index_pc' = "subdir"
    /\ index_dir' = 1
    /\ metadata' = EmptyDict
    /\ index_todo' = {}
    /\ total_files' = 0
    /\ successful_imports' = 0
    /\ insert_log' = {}
    /\ UNCHANGED collection
    /\ UNCHANGED <<emb_pc, emb_dir, emb_todo, json_file, retry, retry_delay,
                   processed_count, error_count, emb_calls, slept, embed_log,
                   emb_skipped>>
    /\ UNCHANGED <<segVars, chunkVars, queryVars>>

NextIndex ==
    \/ IndexSubdir
    \/ IndexSkipSubdir
    \/ IndexNextSubdir
    \/ IndexLoadFails
    \/ IndexMissingFields
    \/ IndexInsert
    \/ IndexInsertRaises

\* The Embedder and then the Indexer over what the Embedder wrote into an
\* empty output folder: all of it is JSON, so no record fails to load.
NextLoad ==
    \/ NextEmbed
    \/ IndexSubdir
    \/ IndexSkipSubdir
    \/ IndexNextSubdir
    \/ IndexMissingFields
    \/ IndexInsert
    \/ IndexInsertRaises

\* The output/embeddings folder the Indexer may find: per document directory
\* at most MaxDirFiles chunk files (complete ones, ones without a required
\* field, one that is not JSON) and a metadata.json of some kind, or none.
EmbFilePool(d) ==
    {[name |-> FileName(Uuid(10 * d + 1)),
      data |-> WithEmbeddings(TableChunkData(Uuid(10 * d + 1), md_files[d],
                                             [text |-> <<"1">>], "context"),
                              VectorFor(<<"1">>))],
     [name |-> FileName(Uuid(10 * d + 2)),
      data |-> WithEmbeddings(ChunkData(Uuid(10 * d + 2), md_files[d],
                                        Composite(<<"2">>), "context"),
                              VectorFor(<<"2">>))],
     [name |-> FileName(Uuid(10 * d + 3)),
      data |-> ChunkData(Uuid(10 * d + 3), md_files[d], Composite(<<"3">>),
                         "context")],
     [name |-> FileName(Uuid(10 * d + 4)),
      data |-> [id |-> Uuid(10 * d + 4), source_file |-> md_files[d],
                category |-> "CompositeElement",
                contextualization |-> "context",
                embeddings |-> VectorFor(<<"4">>)]],
     [name |-> FileName("part"),
      data |-> [source_file |-> md_files[d], category |-> "CompositeElement",
                content |-> <<"5">>, contextualization |-> "context",
                embeddings |-> VectorFor(<<"5">>)]],
     [name |-> FileName(Uuid(10 * d + 6)), data |-> InvalidJson]}

PartialValue == [model |-> <<"D", "X", "7">>]

EmbMetadataPool ==
    {{}} \cup
    {{[name |-> MetadataName, data |-> v]} :
        v \in {JsonValue, empty_object, PartialValue, EmptyDict, InvalidJson}}

EmbDirPool(d) ==
    {fs \cup m : fs \in {x \in SUBSET EmbFilePool(d) :
                           Cardinality(x) <= MaxDirFiles},
                 m \in EmbMetadataPool}

\* The Embedder has run; the Indexer is started over its output folder.
EmbedderDone ==
    /\ emb_pc = "done"
    /\ emb_dir = NumMd
    /\ emb_todo = {}
    /\ json_file = ""
    /\ retry = 0
    /\ retry_delay = initial_retry_delay
    /\ processed_count = 0
    /\ error_count = 0
    /\ emb_calls = <<>>
    /\ slept = <<>>
    /\ embed_log = {}
    /\ emb_skipped = {}

\* -------------------------------------------------------------- Query Engine

\* The conversations open at a time. The first sends MaxTurns messages; the
\* second sends one, which may fall anywhere among the steps of the first.
Conversations == {1, 2}
TurnsOf(s) == IF s = 1 THEN MaxTurns ELSE 1

\* A response text is the sequence of its tags, line ends, blanks and
\* characters.
TagOpen(tag_name) == "<" \o tag_name \o ">"
TagClose(tag_name) == "</" \o tag_name \o ">"

\* str.strip()
RECURSIVE StripSpace(_)
StripSpace(str) ==
    IF str = <<>> THEN str
    ELSE IF Head(str) \in {Blank, Newline} THEN StripSpace(Tail(str))
    ELSE IF str[Len(str)] \in {Blank, Newline}
         THEN StripSpace(SubSeq(str, 1, Len(str) - 1))
    ELSE str

\* The first place at or after `from` where the text has the token; 0 when
\* it has none.
Find(text, token, from) ==
    IF \E i \in from..Len(text) : text[i] = token
    THEN CHOOSE i \in from..Len(text) :
            /\ text[i] = token
            /\ \A j \in from..(i - 1) : text[j] # token
    ELSE 0

\* re.search(f'<{tag_name}>(.*?)</{tag_name}>', text, re.DOTALL)
Search(text, tag_name) ==
    LET open == Find(text, TagOpen(tag_name), 1)
        close == IF open = 0 THEN 0 ELSE Find(text, TagClose(tag_name), open + 1)
    IN [found |-> close > 0,
        group |-> IF close > 0 THEN SubSeq(text, open + 1, close - 1) ELSE <<>>]

\* str.splitlines()
RECURSIVE SplitLines(_)
SplitLines(str) ==
    IF str = <<>> THEN <<>>
    ELSE LET n == Find(str, Newline, 1)
         IN IF n = 0 THEN <<str>>
            ELSE <<SubSeq(str, 1, n - 1)>> \o SplitLines(SubSeq(str, n + 1, Len(str)))

None == <<"n", "o", "n", "e">>

\* `match_values.lower() == "none"`
IsNone_Exact(str) == str = None

IsNone(str) == Lower(str) = None

NotBlank(line) == StripSpace(line) # <<>>

\* extract_tag_values(text, tag_name): the lines of the tag's body.
extract_tag_values(text, tag_name) ==
    LET match == Search(text, tag_name)
        match_values == StripSpace(match.group)
        lines == SelectSeq(SplitLines(match_values), NotBlank)
    IN IF ~match.found THEN <<>>
       ELSE IF IsNone(match_values) THEN <<>>
       ELSE [i \in 1..Len(lines) |-> StripSpace(lines[i])]

\* extract_tag_value(text, tag_name): the tag's body.
extract_tag_value(text, tag_name) ==
    LET match == Search(text, tag_name)
        match_value == StripSpace(match.group)
    IN IF ~match.found THEN <<>>
       ELSE IF IsNone(match_value) THEN <<>>
       ELSE match_value

\* What the extraction call may answer for a slot: no tag, "none" in some
\* letter case, one value, or two values with a blank line between them.
Tagged(tag_name, body) == <<TagOpen(tag_name)>> \o body \o <<TagClose(tag_name)>>
Moog == <<"M", "o", "o", "g">>
Korg == <<"K", "o", "r", "g">>
Roland == <<"R", "o", "l", "a", "n", "d">>
Sub37 == <<"S", "u", "b", " ", "3", "7">>
MS20 == <<"M", "S", "2", "0">>
BrandBodies ==
    {<<Newline>> \o None \o <<Newline>>,
     <<"N", "o", "n", "e">>,
     <<Newline>> \o Moog \o <<Newline>>,
     <<Newline, Blank>> \o Moog \o <<Newline, Blank, Newline>> \o Korg \o <<Blank, Newline>>}
ModelBodies ==
    {<<Newline, "N", "O", "N", "E", Blank, Newline>>,
     <<Newline>> \o Sub37 \o <<Newline>>}
Reasoning == <<"w", "h", "y">>
ClassifierReplies ==
    {Tagged("reasoning", Reasoning) \o <<Newline>> \o b \o <<Newline>> \o m :
        b \in {<<>>} \cup {Tagged("brands", x) : x \in BrandBodies},
        m \in {<<>>} \cup {Tagged("models", x) : x \in ModelBodies}}
    \cup {Reasoning}

\* get_filters(query), from the text the extraction call answered.
get_filters(text) ==
    [brands |-> extract_tag_values(text, "brands"),
     models |-> extract_tag_values(text, "models"),
     reasoning |-> extract_tag_value(text, "reasoning")]

\* The filters of each answer the extraction call may give.
Filters == [text \in ClassifierReplies |-> get_filters(text)]

\* The k-th object of the collection, as the Indexer inserted it.
Manual(k) ==
    Object([id |-> Uuid(k), embeddings |-> VectorFor(<<ToString(k)>>),
            content |-> <<ToString(k)>>],
           [brand |-> CASE k % 3 = 1 -> Moog [] k % 3 = 2 -> Korg [] OTHER -> Roland,
            model |-> IF k % 2 = 1 THEN Sub37 ELSE MS20])
Manuals(n) == {Manual(k) : k \in 1..n}

\* Filter.by_property(prop).contains_any(values): the store compares text
\* without regard to letter case.
ContainsAny(object, filter) ==
    \E i \in 1..Len(filter.values) :
       Lower(filter.values[i]) = Lower(object.properties[filter.prop])

\* Filter.any_of(filterset)
AnyOf(object, filterset) ==
    \E i \in 1..Len(filterset) : ContainsAny(object, filterset[i])

\* The filterset get_documentation builds from the filters it is given.
Filterset_Both(filters) ==
    <<[prop |-> "brand", values |-> filters.brands],
      [prop |-> "model", values |-> filters.models]>>

Filterset(filters) ==
    (IF Len(filters.brands) > 0
     THEN <<[prop |-> "brand", values |-> filters.brands]>> ELSE <<>>) \o
    (IF Len(filters.models) > 0
     THEN <<[prop |-> "model", values |-> filters.models]>> ELSE <<>>)

filtered_limit == 10
unfiltered_limit == 10

\* collection.query.hybrid(...): the `limit` best objects among those the
\* filters let through, whichever the scores make them.
Hybrid(objects, candidates, limit) ==
    {r \in SUBSET candidates :
        Cardinality(r) = IF Cardinality(candidates) < limit
                         THEN Cardinality(candidates) ELSE limit}

\* get_documentation(query, filters): the hybrid call it makes and the
\* documents it may return.
HybridCall(filters) ==
    IF Filterset(filters) # <<>>
    THEN [filters |-> Filterset(filters), limit |-> filtered_limit]
    ELSE [filters |-> <<>>, limit |-> unfiltered_limit]

get_documentation(objects, filters) ==
    LET call == HybridCall(filters)
        candidates == IF call.filters # <<>>
                      THEN {o \in objects : AnyOf(o, call.filters)}
                      ELSE objects
    IN {{<<o.uuid, o.properties.content>> : o \in r} :
          r \in Hybrid(objects, candidates, call.limit)}

\* cl.user_session is the store of the conversation the handler runs for.
Slot_Shared(s) == 1

Slot(s) == s

EmptyEntities == [brands |-> <<>>, models |-> <<>>]
start_messages == <<"user", "assistant">>

InitQuery ==
    /\ user_session = [s \in Conversations |-> EmptyDict]
    /\ chat_pc = [s \in Conversations |-> "closed"]
    /\ entities = [s \in Conversations |-> EmptyEntities]
    /\ documents = [s \in Conversations |-> {}]
    /\ turns = [s \in Conversations |-> 0]
    /\ extractions = [s \in Conversations |-> <<>>]
    /\ writes = [s \in Conversations |-> 0]
    /\ hybrid_calls = [s \in Conversations |-> {}]

\* start_chat(): the conversation's messages and its entities are set.
StartChat(s) ==
    /\ chat_pc[s] = "closed"
    /\ user_session' = [user_session EXCEPT ![Slot(s)] =
                           [messages |-> start_messages, entities |-> EmptyEntities]]
    /\ chat_pc' = [chat_pc EXCEPT ![s] = "idle"]
    /\ UNCHANGED <<entities, documents, turns, extractions, writes, hybrid_calls>>
    /\ UNCHANGED notQueryVars

\* chat(message): the entities of the session are read and get_filters is
\* called.
ChatReceives(s) ==
    /\ chat_pc[s] = "idle"
    /\ turns[s] < TurnsOf(s)
    /\ turns' = [turns EXCEPT ![s] = @ + 1]
    /\ entities' = [entities EXCEPT ![s] = user_session[Slot(s)].entities]
    /\ documents' = [documents EXCEPT ![s] = {}]
    /\ writes' = [writes EXCEPT ![s] = 0]
    /\ hybrid_calls' = [hybrid_calls EXCEPT ![s] = {}]
    /\ chat_pc' = [chat_pc EXCEPT ![s] = "get_filters"]
    /\ UNCHANGED <<user_session, extractions>>
    /\ UNCHANGED notQueryVars

\* `len(filters["brands"]) > 0 or len(filters["models"]) > 0`
Mentions(filters) == Len(filters.brands) > 0 \/ Len(filters.models) > 0

\* The entities chat() goes on with: the filters, when they name a brand or a
\* model (the lines extending the earlier entities are commented out).
NextEntities_Extended(old, filters) ==
    IF Mentions(filters)
    THEN [brands |-> old.brands \o filters.brands,
          models |-> old.models \o filters.models]
    ELSE old

NextEntities_AlwaysReplaced(old, filters) == filters

NextEntities(old, filters) == IF Mentions(filters) THEN filters ELSE old

\* `if entities["brands"] or entities["models"]`
HasEntities_Always(e) == TRUE

HasEntities(e) == Len(e.brands) > 0 \/ Len(e.models) > 0

\* get_filters returns: the entities are replaced and set when the filters
\* name something; get_documentation is called when the entities do.
ChatFilters(s) ==
    /\ chat_pc[s] = "get_filters"
    /\ \E text \in ClassifierReplies :
         LET filters == Filters[text]
             next == NextEntities(entities[s], filters)
         IN /\ extractions' = [extractions EXCEPT ![s] =
                                  Append(@, [brands |-> filters.brands,
                                             models |-> filters.models])]
            /\ entities' = [entities EXCEPT ![s] = next]
            /\ IF Mentions(filters)
               THEN /\ user_session' = [user_session EXCEPT
                                           ![Slot(s)].entities = next]
                    /\ writes' = [writes EXCEPT ![s] = @ + 1]
               ELSE UNCHANGED <<user_session, writes>>
            /\ chat_pc' = [chat_pc EXCEPT ![s] =
                              IF HasEntities(next)
                              THEN "get_documentation" ELSE "call_claude"]
    /\ UNCHANGED <<documents, turns, hybrid_calls>>
    /\ UNCHANGED notQueryVars

\* A call of get_filters (store, extraction service) raises: the handler ends.
ChatFiltersRaises(s) ==
    /\ chat_pc[s] = "get_filters"
    /\ chat_pc' = [chat_pc EXCEPT ![s] = "idle"]
    /\ entities' = [entities EXCEPT ![s] = EmptyEntities]
    /\ UNCHANGED <<user_session, documents, turns, extractions, writes,
                   hybrid_calls>>
    /\ UNCHANGED notQueryVars

\* get_documentation returns the documents of its hybrid call.
ChatRetrieve(s) ==
    /\ chat_pc[s] = "get_documentation"
    /\ \E docs \in get_documentation(collection, entities[s]) :
          documents' = [documents EXCEPT ![s] = docs]
    /\ hybrid_calls' = [hybrid_calls EXCEPT ![s] = @ \cup {HybridCall(entities[s])}]
    /\ chat_pc' = [chat_pc EXCEPT ![s] = "call_claude"]
    /\ UNCHANGED <<user_session, entities, turns, extractions, writes>>
    /\ UNCHANGED notQueryVars

\* The embedding call or the hybrid call raises: the handler ends.
ChatRetrieveRaises(s) ==
    /\ chat_pc[s] = "get_documentation"
    /\ chat_pc' = [chat_pc EXCEPT ![s] = "idle"]
    /\ entities' = [entities EXCEPT ![s] = EmptyEntities]
    /\ UNCHANGED <<user_session, documents, turns, extractions, writes,
                   hybrid_calls>>
    /\ UNCHANGED notQueryVars

\* call_claude(query, documents): the turn and the answer are appended to the
\* messages of the session.
ChatAnswer(s) ==
    /\ chat_pc[s] = "call_claude"
    /\ user_session' = [user_session EXCEPT ![Slot(s)].messages =
                           @ \o <<"user", "assistant">>]
    /\ chat_pc' = [chat_pc EXCEPT ![s] = "idle"]
    /\ entities' = [entities EXCEPT ![s] = EmptyEntities]
    /\ documents' = [documents EXCEPT ![s] = {}]
    /\ UNCHANGED <<turns, extractions, writes, hybrid_calls>>
    /\ UNCHANGED notQueryVars

\* The answer call raises: the turn is in the messages, the answer is not.
ChatAnswerRaises(s) ==
    /\ chat_pc[s] = "call_claude"
    /\ user_session' = [user_session EXCEPT ![Slot(s)].messages = @ \o <<"user">>]
    /\ chat_pc' = [chat_pc EXCEPT ![s] = "idle"]
    /\ entities' = [entities EXCEPT ![s] = EmptyEntities]
    /\ documents' = [documents EXCEPT ![s] = {}]
    /\ UNCHANGED <<turns, extractions, writes, hybrid_calls>>
    /\ UNCHANGED notQueryVars

NextQuery ==
    \E s \in Conversations :
       \/ StartChat(s)
       \/ ChatReceives(s)
       \/ ChatFilters(s)
       \/ ChatFiltersRaises(s)
       \/ ChatRetrieve(s)
       \/ ChatRetrieveRaises(s)
       \/ ChatAnswer(s)
       \/ ChatAnswerRaises(s)

\* get_documentation alone, called with given filters.
NextRetrieve ==
    \E s \in Conversations : ChatRetrieve(s) \/ ChatRetrieveRaises(s)

\* The Indexer has run; the Query Engine is started over its collection.
IndexerDone ==
    /\ index_pc = "done"
    /\ index_dir = NumMd
    /\ metadata = EmptyDict
    /\ index_todo = {}
    /\ total_files = 0
    /\ successful_imports = 0
    /\ insert_log = {}
    /\ index_runs_left = 0

\* -------------------------------------------------------------- specifications

vars == <<segVars, chunkVars, embVars, indexVars, queryVars>>

Init ==
    /\ InitSeg /\ InitChunk /\ runs_left = 0 /\ InitEmbed /\ InitIndex
    /\ index_runs_left = 0
    /\ InitQuery

\* main() of the Chunker is run MaxRuns times.
InitRerun ==
    /\ InitSeg /\ InitChunk /\ runs_left = MaxRuns - 1 /\ InitEmbed /\ InitIndex
    /\ index_runs_left = 0
    /\ InitQuery

\* The Embedder is run over an output/chunks folder.
InitEmbedRun ==
    /\ InitSeg
    /\ ChunkerDone
    /\ chunk_dirs \in {ds \in [1..NumMd -> UNION {ChunkDirPool(d) : d \in 1..NumMd}] :
                         \A d \in 1..NumMd : ds[d] \in ChunkDirPool(d)}
    /\ InitEmbed
    /\ InitIndex
    /\ index_runs_left = 0
    /\ InitQuery

SpecSeg == Init /\ [][NextSeg]_vars

\* The script runs on its own: a step that can be taken is taken.
FairSpecSeg == SpecSeg /\ WF_vars(NextSeg)

SpecChunk == Init /\ [][NextChunk]_vars

\* The Indexer is run over an output/embeddings folder.
IndexerStarted ==
    /\ InitSeg
    /\ ChunkerDone
    /\ chunk_dirs = [d \in 1..NumMd |-> {}]
    /\ EmbedderDone
    /\ emb_dirs \in {ds \in [1..NumMd -> UNION {EmbDirPool(d) : d \in 1..NumMd}] :
                       \A d \in 1..NumMd : ds[d] \in EmbDirPool(d)}
    /\ InitIndex
    /\ InitQuery

InitIndexRun == IndexerStarted /\ index_runs_left = 0

\* The Indexer is run twice over an output/embeddings folder.
InitReindex == IndexerStarted /\ index_runs_left = 1

SpecEmbed == InitEmbedRun /\ [][NextEmbed]_vars

SpecIndex == InitIndexRun /\ [][NextIndex]_vars

SpecReindex == InitReindex /\ [][NextIndex \/ IndexRerun]_vars

\* The Query Engine is started over a loaded collection.
QueryStarted ==
    /\ InitSeg
    /\ ChunkerDone
    /\ chunk_dirs = [d \in 1..NumMd |-> {}]
    /\ EmbedderDone
    /\ emb_dirs = [d \in 1..NumMd |-> {}]
    /\ IndexerDone

InitQueryRun ==
    /\ QueryStarted
    /\ collection = Manuals(MaxManuals)
    /\ InitQuery

\* get_documentation is called in the first conversation, with filters of
\* any kind (none among them), over a collection of any size.
InitRetrieve ==
    /\ QueryStarted
    /\ collection \in {Manuals(n) : n \in 0..MaxManuals}
    /\ user_session = [s \in Conversations |->
                          [messages |-> start_messages, entities |-> EmptyEntities]]
    /\ chat_pc = [s \in Conversations |->
                     IF s = 1 THEN "get_documentation" ELSE "idle"]
    /\ entities \in {[s \in Conversations |-> IF s = 1 THEN e ELSE EmptyEntities] :
                       e \in {EmptyEntities} \cup
                              {[brands |-> Filters[text].brands,
                                models |-> Filters[text].models] :
                                  text \in ClassifierReplies}}
    /\ documents = [s \in Conversations |-> {}]
    /\ turns = [s \in Conversations |-> IF s = 1 THEN 1 ELSE 0]
    /\ extractions = [s \in Conversations |-> <<>>]
    /\ writes = [s \in Conversations |-> 0]
    /\ hybrid_calls = [s \in Conversations |-> {}]

SpecQuery == InitQueryRun /\ [][NextQuery]_vars

SpecRetrieve == InitRetrieve /\ [][NextRetrieve]_vars

\* The Embedder run over an output/chunks folder, the Indexer after it.
SpecLoad == InitEmbedRun /\ [][NextLoad]_vars

\* The pipeline run from empty output folders: the Chunker, the Embedder,
\* the Indexer.
NextPipeline ==
    \/ NextChunk
    \/ EmbSubdir
    \/ EmbNextSubdir
    \/ EmbMetadata
    \/ EmbPrepare
    \/ EmbRaises
    \/ EmbWrite
    \/ IndexSubdir
    \/ IndexSkipSubdir
    \/ IndexNextSubdir
    \/ IndexInsert
    \/ IndexInsertRaises

SpecPipeline == Init /\ [][NextPipeline]_vars

\* The Chunker run again over the same markdown files.
SpecRerun == InitRerun /\ [][NextChunk \/ Rerun]_vars

\* ---------------------------------------------------------- Segmenter claims

CurrentPage == page_num + 1

HasRecord(pages, pn, st) ==
    \E k \in 1..Len(pages) : pages[k].page_number = pn /\ pages[k].status = st

RecordsOf(pages, pn) == {k \in 1..Len(pages) : pages[k].page_number = pn}

Contains(seq, x) == \E k \in 1..Len(seq) : seq[k] = x

LacksSection(out) ==
    ~out.raised /\ ~EmptyResponse(out.text) /\ ~SearchMarkdown(out.text).found

EmptyBody(out) == ~out.raised /\ EmptyResponse(out.text)

\* Every conversion call made so far for the page in the while loop satisfies P.
AllAttempts(P(_)) == \A k \in 1..Len(attempts) : P(attempts[k])

Raised(out) == out.raised

\* C1: a page whose every conversion call fails with an API error is, after
\* the retries are used up, recorded as error and left: once the error record
\* of the page exists the while loop does not go round again.
C1_ErrorPageIsLeft ==
    (/\ seg_pc = "while"
     /\ AllAttempts(Raised)
     /\ HasRecord(pdf_results.pages, CurrentPage, "error"))
        => ~WhileCond(retry_count, success)

\* C2: at most 3 conversion calls are made for any one page.
C2_AtMostThreeCalls == Len(attempts) <= max_retries

\* C3: the audit holds one PageResult per processed page and a PageResult is
\* terminal: no page number occurs twice in the page records, neither in the
\* records being collected nor in a written audit artifact.
C3_OneResultPerPage ==
    /\ \A p \in 1..MaxPages :
          Cardinality(RecordsOf(pdf_results.pages, p)) <= 1
    /\ \A i \in 1..NumPdfs : files[i].written =>
          \A p \in 1..MaxPages :
             Cardinality(RecordsOf(files[i].results.pages, p)) <= 1

\* The text assembled from pages 1..n without the pages in skip.
RECURSIVE TextWithout(_, _)
TextWithout(n, skip) ==
    IF n = 0 THEN <<>>
    ELSE TextWithout(n - 1, skip) \o
         (IF n \in skip THEN <<>> ELSE <<PageContent(n), Newline>>)

PagesIn(pages) == {pages[k].page_number : k \in 1..Len(pages)}

\* C4: when one page of a multi-page document fails on all retry attempts and
\* every other page succeeds, the run goes on past the failing page and ends
\* with the text of the other pages in page order and an audit of one record
\* per page: error for the failing page, success for the others.
C4_FailingPageSkipped ==
    /\ (/\ seg_pc = "while"
         /\ doc_len > 1
         /\ Len(attempts) >= max_retries
         /\ AllAttempts(Raised)
         /\ \A q \in 1..page_num : HasRecord(pdf_results.pages, q, "success"))
            => ~WhileCond(retry_count, success)
    /\ \A i \in 1..NumPdfs :
          (/\ files[i].written
           /\ files[i].results.error = NoError
           /\ Cardinality(PagesIn(files[i].results.pages)) > 1
           /\ \E p \in PagesIn(files[i].results.pages) :
                 /\ HasRecord(files[i].results.pages, p, "error")
                 /\ \A k \in 1..Len(files[i].results.pages) :
                       files[i].results.pages[k].page_number # p =>
                          files[i].results.pages[k].status = "success")
            => LET pg == files[i].results.pages
                   n == Cardinality(PagesIn(pg))
                   bad == {p \in PagesIn(pg) : HasRecord(pg, p, "error")}
               IN  /\ Len(pg) = n
                   /\ \A k \in 1..n :
                         /\ pg[k].page_number = k
                         /\ pg[k].status =
                               (IF k \in bad THEN "error" ELSE "success")
                   /\ files[i].md = TextWithout(n, bad)

\* C5: a response without the <markdown_output> section is never recorded as
\* success. Before the 3rd attempt it leaves the page unrecorded and in the
\* loop (a retry follows); when the 3rd attempt lacks the section the page has
\* one record, a warning, the loop is left after exactly 3 calls, and the
\* page's content is not in the assembled text. A page's content is in the
\* text only if the page has a success record.
C5_MissingSectionIsWarning ==
    /\ \A k \in 1..Len(pdf_results.pages) :
          pdf_results.pages[k].status = "success" =>
             SearchMarkdown(pdf_results.pages[k].detail).found
    /\ \A p \in 1..MaxPages :
          Contains(markdown_output, PageContent(p)) =>
             HasRecord(pdf_results.pages, p, "success")
    /\ (seg_pc = "while" /\ attempts # <<>>
           /\ LacksSection(attempts[Len(attempts)])) =>
          /\ ~success
          /\ ~HasRecord(pdf_results.pages, CurrentPage, "success")
          /\ Len(attempts) < max_retries =>
                /\ RecordsOf(pdf_results.pages, CurrentPage) = {}
                /\ WhileCond(retry_count, success)
    /\ (seg_pc = "while" /\ Len(attempts) >= max_retries
           /\ LacksSection(attempts[max_retries])) =>
          /\ Len(attempts) = max_retries
          /\ ~WhileCond(retry_count, success)
          /\ Cardinality(RecordsOf(pdf_results.pages, CurrentPage)) = 1
          /\ HasRecord(pdf_results.pages, CurrentPage, "warning")
          /\ ~Contains(markdown_output, PageContent(CurrentPage))

\* The 3rd attempt of a page lacked the section like the two before it, the
\* warning is recorded and the loop is over.
C5_Witness ==
    /\ seg_pc = "while"
    /\ Len(attempts) = max_retries
    /\ AllAttempts(LacksSection)
    /\ HasRecord(pdf_results.pages, CurrentPage, "warning")
    /\ ~WhileCond(retry_count, success)

\* C6: an empty body is handled like a raised API error, and a page whose
\* every attempt returns an empty body ends with status error: once the
\* retries are used up the page has its one error record and the loop is left.
C6_EmptyBodyEndsAsError ==
    (/\ seg_pc = "while"
     /\ Len(attempts) >= max_retries
     /\ AllAttempts(EmptyBody))
        => /\ Len(attempts) = max_retries
           /\ ~WhileCond(retry_count, success)
           /\ Cardinality(RecordsOf(pdf_results.pages, CurrentPage)) = 1
           /\ HasRecord(pdf_results.pages, CurrentPage, "error")

ChunkFiles(dir) == {f \in dir : f.name # MetadataName}

FromTablePass(data) == "raw_table" \in DOMAIN data

\* The chunks of `chunks` before position n that the chunk loop persists.
Kept(n) == {k \in 1..(n - 1) : k <= Len(chunks) /\ ~SkipChunk(chunks[k].category)}

\* The table loop of the current file is over.
TablesDone ==
    \/ chunk_pc = "tables" /\ idx > Len(tables)
    \/ chunk_pc = "chunks"
    \/ chunk_pc = "returned"

\* C8: every table element of a document has exactly one persisted chunk of
\* category Table (so there are as many Table chunks as table elements, and
\* none for a document without tables), and the chunk_by_title pass persists no
\* chunk of category Table or TableChunk: every persisted Table chunk comes
\* from the table pass.
C8_OneChunkPerTable ==
    /\ \A d \in 1..NumMd : \A f \in ChunkFiles(chunk_dirs[d]) :
          /\ f.data.category # "TableChunk"
          /\ f.data.category = "Table" <=> FromTablePass(f.data)
    /\ TablesDone =>
          LET tableChunks == {f \in ChunkFiles(chunk_dirs[md_file]) :
                                f.data.category = "Table"}
          IN  /\ Cardinality(tableChunks) = Len(TablesOf(elements))
              /\ \A k \in 1..Len(elements) :
                    elements[k].category = "Table" =>
                       Cardinality({f \in tableChunks :
                                      f.data.content = elements[k].text}) = 1

\* A file with a table element is done; chunk_by_title had split the table
\* into TableChunk pieces and grouped the text that follows it.
C8_Witness ==
    /\ chunk_pc = "returned"
    /\ result
    /\ Len(tables) = 1
    /\ \E k \in 1..Len(chunks) : chunks[k].category = "TableChunk"
    /\ \E f \in ChunkFiles(chunk_dirs[md_file]) : f.data.category = "Table"
    /\ \E f \in ChunkFiles(chunk_dirs[md_file]) :
          f.data.category = "CompositeElement"

\* C9: a chunk (table or not) whose enrichment call raised is persisted with
\* its content, its category and the context "Error generating context"; no
\* chunk is dropped: every table and every non-table chunk the loops have
\* passed has its file, and a file that is done has all of them.
C9_EnrichmentFailureKeepsChunk ==
    /\ \A u \in enrich_raised :
          \E f \in ChunkFiles(chunk_dirs[md_file]) :
             /\ f.data.category = u.category
             /\ f.data.content = u.content
             /\ f.data.contextualization = "Error generating context"
    /\ chunk_pc = "tables" =>
          Cardinality(ChunkFiles(chunk_dirs[md_file])) = idx - 1
    /\ chunk_pc = "chunks" =>
          Cardinality(ChunkFiles(chunk_dirs[md_file])) =
             Len(tables) + Cardinality(Kept(idx))
    /\ (chunk_pc = "returned" /\ result) =>
          Cardinality(ChunkFiles(chunk_dirs[md_file])) =
             Len(tables) + Cardinality(Kept(Len(chunks) + 1))

\* A file is done in which the enrichment call of one chunk raised and the
\* chunk processed right after it was enriched and persisted.
C9_Witness ==
    /\ chunk_pc = "returned"
    /\ result
    /\ \E n \in 1..uuids : \E f, g \in ChunkFiles(chunk_dirs[md_file]) :
          /\ f.data.id = Uuid(n)
          /\ g.data.id = Uuid(n + 1)
          /\ [category |-> f.data.category, content |-> f.data.content]
                \in enrich_raised
          /\ f.data.contextualization = "Error generating context"
          /\ g.data.contextualization = "context"

\* The classification call raised, or its response has no <json_output>
\* section, or the section is not valid JSON.
BadReply(out) ==
    \/ out.raised
    \/ ~SearchTag(out.text, JsonOpen, JsonClose).found
    \/ JsonLoads(Strip(SearchTag(out.text, JsonOpen, JsonClose).group)).error

MetadataOf(d) == {f.data : f \in {g \in chunk_dirs[d] : g.name = MetadataName}}

\* C10: classification never raises. Whatever the classification call did,
\* process_document goes on to write metadata.json and returns True; after a
\* failed call, a missing section or invalid JSON the metadata.json holds the
\* default object.
C10_ClassificationNeverRaises ==
    \A d \in 1..NumMd :
       classify_reply[d] # NoReply =>
          /\ (d = md_file /\ chunk_pc = "returned") => result
          /\ d < md_file \/ chunk_pc \in {"returned", "done"}
          /\ Cardinality(MetadataOf(d)) = 1
          /\ BadReply(classify_reply[d]) => MetadataOf(d) = {empty_object}
          /\ ~BadReply(classify_reply[d]) => MetadataOf(d) = {JsonValue}

\* The first file's classification response carried a section that is not
\* JSON; its metadata.json holds the default object and the second file is
\* being chunked.
C10_Witness ==
    /\ md_file = 2
    /\ chunk_pc = "chunks"
    /\ ~classify_reply[1].raised
    /\ SearchTag(classify_reply[1].text, JsonOpen, JsonClose).found
    /\ MetadataOf(1) = {empty_object}
    /\ success_count = 1

\* A chunk artifact is a file whose record carries an id.
IsChunkRecord(data) == "id" \in DOMAIN data

\* C11: every persisted chunk has an id no other chunk artifact has, in its
\* own document directory or in another one, and a chunk's file (named after
\* its id) is never the reserved metadata.json.
C11_ChunkIdsUnique ==
    /\ \A d1, d2 \in 1..NumMd :
          \A f \in chunk_dirs[d1] : \A g \in chunk_dirs[d2] :
             (IsChunkRecord(f.data) /\ IsChunkRecord(g.data) /\
              f.data.id = g.data.id) => (d1 = d2 /\ f = g)
    /\ \A d \in 1..NumMd : \A f \in chunk_dirs[d] :
          IF IsChunkRecord(f.data)
          THEN f.name = FileName(f.data.id) /\ f.name # MetadataName
          ELSE f.name = MetadataName

\* Both files are done; each directory holds two chunks and its metadata.json.
C11_Witness ==
    /\ chunk_pc = "done"
    /\ \A d \in 1..NumMd :
          /\ Cardinality(ChunkFiles(chunk_dirs[d])) = 2
          /\ Cardinality(MetadataOf(d)) = 1

\* Two chunk artifacts of one logical unit: the same category and content out
\* of the same source file.
SameUnit(f, g) ==
    /\ f.data.source_file = g.data.source_file
    /\ f.data.category = g.data.category
    /\ f.data.content = g.data.content

\* C12: a chunk id is generated once per logical unit and never regenerated:
\* running the Chunker again over the unchanged markdown files leaves one
\* chunk artifact per logical unit, under the id it had, and adds none.
C12_IdGeneratedOnce ==
    \A d \in 1..NumMd :
       \A f, g \in ChunkFiles(chunk_dirs[d]) :
          SameUnit(f, g) => f.data.id = g.data.id

\* ----------------------------------------------------------- Embedder claims

Last(seq) == seq[Len(seq)]

\* The step makes an embedding call, and the call ends as `kinds` say.
CallEnds(kinds) ==
    /\ emb_calls' # emb_calls
    /\ emb_calls' # <<>>
    /\ Last(emb_calls').raised \in kinds

\* The step counts json_file as an error, writes nothing and leaves the file
\* loop at the files that remain.
SkippedAsError ==
    /\ error_count' = error_count + 1
    /\ processed_count' = processed_count
    /\ emb_dirs' = emb_dirs
    /\ emb_pc' = "files"
    /\ emb_todo' = emb_todo
    /\ emb_dir' = emb_dir

\* C13: a rate-limited embedding call is retried after a sleep of 2 s, then of
\* 4 s, and a chunk gets at most 3 calls; when the third call is rate-limited
\* too, the chunk is counted as an error, nothing is written for it and the
\* file loop goes on.
C13_RateLimitBackoff ==
    /\ [](Len(emb_calls) <= 3)
    /\ [][CallEnds({"RateLimitError"}) =>
             /\ Len(emb_calls') = 1 =>
                   slept' = <<2>> /\ emb_pc' = "embed" /\ error_count' = error_count
             /\ Len(emb_calls') = 2 =>
                   slept' = <<2, 4>> /\ emb_pc' = "embed" /\ error_count' = error_count
             /\ Len(emb_calls') = 3 => slept' = <<2, 4>> /\ SkippedAsError]_vars

\* The third call for a chunk was rate-limited like the two before it; the
\* Embedder slept 2 s and 4 s, counted the chunk and is back in the file loop
\* with a file still to come.
C13_Witness ==
    /\ Len(emb_calls) = 3
    /\ \A i \in 1..3 : emb_calls[i].raised = "RateLimitError"
    /\ slept = <<2, 4>>
    /\ emb_pc = "files"
    /\ emb_todo # {}
    /\ error_count = 1
    /\ emb_dirs[emb_dir] = {}

\* Files of the subfolders the Embedder has listed.
ListedFiles ==
    UNION {{<<d, f.name>> : f \in chunk_dirs[d]} :
             d \in (1..NumMd) \ emb_skipped}

\* C14: an embedding call that fails with an error other than the rate-limit
\* signal is not repeated: it is the last call for its chunk; the chunk is
\* counted as an error and skipped, and the files that remain, in this and in
\* the later subfolders, are still handled: at the end every listed file is
\* counted as processed or as an error.
C14_OtherErrorNotRetried ==
    /\ [][CallEnds({"VoyageError", "Exception"}) => SkippedAsError]_vars
    /\ [](\A i \in 1..Len(emb_calls) - 1 :
             emb_calls[i].raised = "RateLimitError")
    /\ [](emb_pc = "done" =>
             processed_count + error_count = Cardinality(ListedFiles))

\* The only call for the first chunk of the first subfolder failed with an
\* API error; the chunk was counted and the file loop has files left, here
\* and in the next subfolder.
C14_Witness ==
    /\ emb_calls = <<VoyageError>>
    /\ emb_pc = "files"
    /\ emb_dir = 1
    /\ emb_todo # {}
    /\ error_count = 1
    /\ processed_count = 0
    /\ chunk_dirs[2] # {}

\* The chunk files of an embeddings directory.
EmbChunkFiles(dir) == {f \in dir : f.name # MetadataName}

\* C15: no chunk file in the embeddings output is without a vector or has an
\* empty one; a response without a vector payload makes the chunk an error
\* that is skipped; the vector of an output chunk is the one the service
\* returned for that chunk's content + "\n\n" + contextualization.
C15_NoChunkWithoutVector ==
    /\ [](\A d \in 1..NumMd : \A g \in EmbChunkFiles(emb_dirs[d]) :
             /\ "embeddings" \in DOMAIN g.data
             /\ g.data.embeddings # <<>>
             /\ g.data.embeddings =
                  VectorFor(g.data.content \o
                               <<"\n\n", g.data.contextualization>>))
    /\ [][(CallEnds({"none"}) /\
           (~Last(emb_calls').has_embeddings \/
            Last(emb_calls').embeddings = <<>>)) => SkippedAsError]_vars

\* A first chunk got a response with an empty list and was skipped; the
\* second chunk's vector was written.
C15_Witness ==
    /\ error_count = 1
    /\ processed_count = 1
    /\ emb_pc = "files"
    /\ Len(emb_calls) = 1
    /\ Last(emb_calls).has_embeddings
    /\ Last(emb_calls).embeddings # <<>>
    /\ Cardinality(EmbChunkFiles(emb_dirs[emb_dir])) = 1
    /\ Cardinality({f \in chunk_dirs[emb_dir] : f.name # MetadataName /\
                       f.data # InvalidJson /\ ~LacksFields(f.data)}) = 2

\* C16: an output record is its input record with one field added, the vector
\* under the name "embeddings" (the name the Indexer reads); every field of
\* the input, id, content and contextualization among them, is in the output
\* with the same value; a metadata.json in the output is the input's.
C16_OnlyVectorAdded ==
    \A d \in 1..NumMd :
       /\ \A g \in EmbChunkFiles(emb_dirs[d]) :
             \E f \in chunk_dirs[d] :
                /\ f.name # MetadataName
                /\ g.name = (IF "id" \in DOMAIN f.data
                             THEN FileName(f.data.id) ELSE f.name)
                /\ "embeddings" \notin DOMAIN f.data
                /\ DOMAIN g.data = DOMAIN f.data \cup {"embeddings"}
                /\ \A k \in DOMAIN f.data : g.data[k] = f.data[k]
       /\ \A g \in emb_dirs[d] \ EmbChunkFiles(emb_dirs[d]) :
             g \in chunk_dirs[d]

\* Both subfolders are done; the first held a table chunk, a text chunk and a
\* metadata.json, and all three are in the output.
C16_Witness ==
    /\ emb_pc = "done"
    /\ Cardinality(EmbChunkFiles(emb_dirs[1])) = 2
    /\ \E g \in emb_dirs[1] : "raw_table" \in DOMAIN g.data
    /\ \E g \in emb_dirs[1] : g.name = MetadataName /\ g.data = JsonValue
    /\ emb_dirs[2] # {}

\* The step takes a chunk file that is JSON and has no content or no
\* contextualization.
TakesFileLacking ==
    /\ emb_pc = "files"
    /\ emb_todo' # emb_todo
    /\ json_file' # MetadataName
    /\ json_file' \in emb_todo
    /\ FileData(chunk_dirs[emb_dir], json_file') # InvalidJson
    /\ \/ "content" \notin DOMAIN FileData(chunk_dirs[emb_dir], json_file')
       \/ "contextualization" \notin
             DOMAIN FileData(chunk_dirs[emb_dir], json_file')

\* C17: for a chunk file without content or without contextualization the
\* Embedder makes no embedding call and writes nothing; the file is counted as
\* an error and the file loop goes on with the files that remain.
C17_IncompleteChunkNotEmbedded ==
    /\ [][TakesFileLacking =>
             /\ error_count' = error_count + 1
             /\ processed_count' = processed_count
             /\ emb_dirs' = emb_dirs
             /\ embed_log' = embed_log
             /\ emb_calls' = <<>>
             /\ emb_pc' = "files"
             /\ emb_todo' = emb_todo \ {json_file'}]_vars
    /\ [](\A c \in embed_log :
             /\ "content" \in DOMAIN FileData(chunk_dirs[c[1]], c[2])
             /\ "contextualization" \in DOMAIN FileData(chunk_dirs[c[1]], c[2]))

\* A subfolder held a chunk without content and one without
\* contextualization: both are counted, no call was made, and the complete
\* chunk of the next subfolder was embedded and written.
C17_Witness ==
    /\ emb_pc = "done"
    /\ Cardinality({f \in chunk_dirs[1] :
                      f.data # InvalidJson /\ LacksFields(f.data)}) = 2
    /\ error_count = 2
    /\ processed_count = 1
    /\ Cardinality(embed_log) = 1
    /\ Cardinality(EmbChunkFiles(emb_dirs[2])) = 1

\* ------------------------------------------------------------ Indexer claims

HasMetadataFile(dir) == \E f \in dir : f.name = MetadataName

\* Chunk files of an output/chunks directory the Embedder can embed.
Embeddable(dir) ==
    {f \in dir : /\ f.name # MetadataName
                 /\ "content" \in DOMAIN f.data
                 /\ "contextualization" \in DOMAIN f.data}

\* Records of an output/embeddings directory with the fields the Indexer needs.
Loadable(dir) ==
    {g \in dir : /\ g.name # MetadataName
                 /\ "id" \in DOMAIN g.data
                 /\ "embeddings" \in DOMAIN g.data
                 /\ "content" \in DOMAIN g.data}

\* Every embeddable chunk of a document without metadata.json, in a
\* subfolder the Embedder listed, has had its embedding call.
EmbeddedWithoutMetadata ==
    emb_pc = "done" =>
       \A d \in (1..NumMd) \ emb_skipped :
          ~HasMetadataFile(chunk_dirs[d]) =>
             \A f \in Embeddable(chunk_dirs[d]) : <<d, f.name>> \in embed_log

\* C18 as stated: a document whose metadata.json is missing is not aborted:
\* the Embedder embeds all of its chunks, and the Indexer loads them with
\* brand, model and product_type empty.
C18_MissingMetadataLoadedWithDefaults ==
    /\ EmbeddedWithoutMetadata
    /\ index_pc = "done" =>
          \A d \in 1..NumMd :
             ~HasMetadataFile(chunk_dirs[d]) =>
                \A g \in Loadable(emb_dirs[d]) :
                   /\ <<d, g.name>> \in insert_log
                   /\ \A o \in collection :
                         o.uuid = g.data.id =>
                            /\ o.properties.brand = <<>>
                            /\ o.properties.model = <<>>
                            /\ o.properties.product_type = <<>>

\* C18, amended: a document whose metadata.json is missing is not aborted by
\* the Embedder, which makes the embedding call for each of its chunks that
\* has content and contextualization; the Indexer skips the document: no
\* insert call is made for any of its chunks and none is in the collection.
C18_MissingMetadataSkippedAtLoad ==
    /\ EmbeddedWithoutMetadata
    /\ \A d \in 1..NumMd :
          ~HasMetadataFile(chunk_dirs[d]) =>
             /\ \A c \in insert_log : c[1] # d
             /\ \A g \in Loadable(emb_dirs[d]) :
                   \A o \in collection : o.uuid # g.data.id

\* The Indexer is done: the first document had no metadata.json, its chunk
\* was embedded and is not in the collection; the second document's chunk is.
C18_Witness ==
    /\ index_pc = "done"
    /\ ~HasMetadataFile(chunk_dirs[1])
    /\ Loadable(emb_dirs[1]) # {}
    /\ HasMetadataFile(chunk_dirs[2])
    /\ \E g \in Loadable(emb_dirs[2]) : \E o \in collection : o.uuid = g.data.id

NoUpper(str) ==
    \A i \in 1..Len(str) : \A j \in 1..Len(UpperLetters) : str[i] # UpperLetters[j]

\* low is str with every upper-case letter replaced by its lower-case one.
IsLowerOf(low, str) ==
    /\ Len(low) = Len(str)
    /\ NoUpper(low)
    /\ \A i \in 1..Len(str) :
          \/ low[i] = str[i]
          \/ \E j \in 1..Len(UpperLetters) :
                str[i] = UpperLetters[j] /\ low[i] = LowerLetters[j]

\* The directory an object of the collection was loaded from.
DirOf(o) ==
    CHOOSE d \in 1..NumMd : \E g \in Loadable(emb_dirs[d]) : g.data.id = o.uuid

\* C19: the brand, model and product_type of every inserted record are the
\* lower-case form of the values in the document's metadata.json (of the
\* empty string for a value it does not have), and its keywords, when the
\* metadata has them, are the lower-case form of the joined list; none of
\* these fields holds an upper-case character.
C19_InsertedFieldsLowercase ==
    \A o \in collection :
       /\ \E d \in 1..NumMd : \E g \in Loadable(emb_dirs[d]) : g.data.id = o.uuid
       /\ HasMetadataFile(emb_dirs[DirOf(o)])
       /\ LET m == FileData(emb_dirs[DirOf(o)], MetadataName)
          IN  /\ \A k \in {"brand", "model", "product_type"} :
                    IsLowerOf(o.properties[k],
                              IF k \in DOMAIN m THEN m[k] ELSE <<>>)
              /\ "keywords" \in DOMAIN m <=> "keywords" \in DOMAIN o.properties
              /\ "keywords" \in DOMAIN m =>
                    IsLowerOf(o.properties.keywords, Join(m.keywords))

\* A chunk of a document classified as Moog / Sub 37 / Synth with keywords
\* Bass and mono is in the collection, and so is one of a document whose
\* metadata has a model only.
C19_Witness ==
    /\ index_pc = "done"
    /\ \E o \in collection :
          /\ o.properties.brand = <<"m", "o", "o", "g">>
          /\ o.properties.model = <<"s", "u", "b", " ", "3", "7">>
          /\ o.properties.keywords =
                <<"b", "a", "s", "s", ",", "m", "o", "n", "o">>
    /\ \E o \in collection :
          /\ o.properties.brand = <<>>
          /\ o.properties.model = <<"d", "x", "7">>
          /\ "keywords" \notin DOMAIN o.properties

\* The step takes a record that is JSON and has no id, no embeddings or no
\* content.
TakesRecordLacking ==
    /\ index_pc = "files"
    /\ index_todo # {}
    /\ total_files' = total_files + 1
    /\ Record # InvalidJson
    /\ \E key \in {"id", "embeddings", "content"} : key \notin DOMAIN Record

\* C20: a record without id, embedding vector or content is rejected before
\* the store is called: no insert call is made for it, the collection stays
\* as it is, and the file loop goes on with the records that remain.
C20_IncompleteRecordRejected ==
    /\ [][TakesRecordLacking =>
             /\ insert_log' = insert_log
             /\ collection' = collection
             /\ successful_imports' = successful_imports
             /\ index_pc' = "files"
             /\ index_todo' = index_todo \ {ListedNext(index_todo)}]_vars
    /\ [](\A c \in insert_log :
             FileData(emb_dirs[c[1]], c[2]) \in
                {g.data : g \in Loadable(emb_dirs[c[1]])})
    /\ [](\A o \in collection :
             \E d \in 1..NumMd : \E g \in Loadable(emb_dirs[d]) :
                g.data.id = o.uuid)

\* The Indexer is done: records without id, without embeddings and without
\* content were among the four it took; the complete one is in the collection.
C20_Witness ==
    /\ index_pc = "done"
    /\ total_files = 4
    /\ successful_imports = 1
    /\ Cardinality(insert_log) = 1
    /\ \A key \in {"id", "embeddings", "content"} :
          \E d \in 1..NumMd : \E g \in EmbChunkFiles(emb_dirs[d]) :
             g.data # InvalidJson /\ key \notin DOMAIN g.data

\* The object the Indexer builds for the record of an insert call.
Sent(c) ==
    Object(FileData(emb_dirs[c[1]], c[2]), load_metadata(emb_dirs[c[1]]))

\* C21: inserting a record whose uuid the index has already overwrites the
\* object there: once the Indexer has made its insert call for a record, the
\* index holds one object under the record's uuid, and its vector and
\* properties are those of this call (say, after the document's
\* metadata.json changed between two runs).
C21_ReinsertOverwrites ==
    \A c \in insert_log :
       \A o \in collection : o.uuid = Sent(c).uuid => o = Sent(c)

\* The output/embeddings folder is as the first run found it.
SameEmbeddedSet ==
    \A d \in 1..NumMd : \A f \in emb_dirs[d] : f.data # ChangedValue

\* Every record a run can load is in the index.
AllLoaded ==
    \A d \in 1..NumMd :
       ~Falsy(load_metadata(emb_dirs[d])) =>
          \A g \in Loadable(emb_dirs[d]) :
             \E o \in collection : o.uuid = g.data.id

\* C22: the index never holds two records with the same uuid, and a run of
\* the Indexer over the embedded output set an earlier run has loaded leaves
\* the number of index records as it was.
C22_SecondRunAddsNothing ==
    /\ [](\A o1, o2 \in collection : o1.uuid = o2.uuid => o1 = o2)
    /\ [][(index_runs_left = 0 /\ SameEmbeddedSet /\ AllLoaded) =>
             Cardinality(collection') = Cardinality(collection)]_vars

\* The second run is over: it made its insert call for the two records the
\* first run had loaded, imported none, and the index holds the two.
C22_Witness ==
    /\ index_runs_left = 0
    /\ index_pc = "done"
    /\ SameEmbeddedSet
    /\ AllLoaded
    /\ Cardinality(insert_log) = 2
    /\ successful_imports = 0
    /\ Cardinality(collection) = 2

\* metadata.json of the directory is missing, is not JSON, or is empty.
NoUsableMetadata(dir) ==
    \/ ~HasMetadataFile(dir)
    \/ FileData(dir, MetadataName) = InvalidJson
    \/ FileData(dir, MetadataName) = EmptyDict

\* C23: when metadata.json of a document directory is missing, invalid JSON
\* or empty, the Indexer makes no insert call for any file of the directory
\* and none of its records is in the index; from the directory it goes on to
\* the next one (to the summary after the last), counting none of its files.
C23_NoMetadataNoInsert ==
    /\ [](\A d \in 1..NumMd :
             NoUsableMetadata(emb_dirs[d]) =>
                /\ \A c \in insert_log : c[1] # d
                /\ \A g \in Loadable(emb_dirs[d]) :
                      \A o \in collection : o.uuid # g.data.id)
    /\ [][(index_pc = "subdir" /\ NoUsableMetadata(emb_dirs[index_dir])) =>
             /\ total_files' = total_files
             /\ IF index_dir < NumMd
                THEN index_dir' = index_dir + 1 /\ index_pc' = "subdir"
                ELSE index_pc' = "done"]_vars

\* The run is over: metadata.json of the first directory is not JSON, its two
\* loadable records are not in the index, and the second directory, taken
\* next, has its record there.
C23_Witness ==
    /\ index_pc = "done"
    /\ HasMetadataFile(emb_dirs[1])
    /\ FileData(emb_dirs[1], MetadataName) = InvalidJson
    /\ Cardinality(Loadable(emb_dirs[1])) = 2
    /\ \A c \in insert_log : c[1] = 2
    /\ successful_imports = 1
    /\ Cardinality(collection) = 1

\* ------------------------------------------------------- Query Engine claims

\* The text has no opening tag of the slot.
TagAbsent(text, tag_name) ==
    \A i \in 1..Len(text) : text[i] # TagOpen(tag_name)

NotSpace(c) == c \notin {Blank, Newline}

\* The slot's tag holds the word none, in some letter case, and nothing else
\* but blanks and line ends.
TagSaysNone(text, tag_name) ==
    \E i, j \in 1..Len(text) :
       /\ i < j
       /\ text[i] = TagOpen(tag_name)
       /\ text[j] = TagClose(tag_name)
       /\ IsLowerOf(None, SelectSeq(SubSeq(text, i + 1, j - 1), NotSpace))

SlotEmpty(text, tag_name) == TagAbsent(text, tag_name) \/ TagSaysNone(text, tag_name)

\* The conversation's entity state: the entities of its session.
State(s) == user_session[s].entities

\* The step is get_filters returning in conversation s.
FiltersReturned(s) ==
    /\ chat_pc[s] = "get_filters"
    /\ Len(extractions'[s]) = Len(extractions[s]) + 1

\* C24: a slot whose tag is absent from the extraction response, or holds
\* "none" in any letter case, yields the empty list; when the turn's
\* extraction is empty in both slots the session entity state stays as it
\* was, and if that state is empty no retrieval is made: the turn goes to the
\* answer with no documents.
C24_NoneYieldsEmpty ==
    /\ [](\A text \in ClassifierReplies :
            /\ SlotEmpty(text, "brands") => get_filters(text).brands = <<>>
            /\ SlotEmpty(text, "models") => get_filters(text).models = <<>>)
    /\ [][\A s \in Conversations :
            (FiltersReturned(s) /\ Last(extractions'[s]) = EmptyEntities) =>
               /\ user_session'[s] = user_session[s]
               /\ State(s) = EmptyEntities =>
                     /\ chat_pc'[s] = "call_claude"
                     /\ documents'[s] = {}
                     /\ hybrid_calls'[s] = {}]_vars

\* The first turn of a conversation extracted nothing, and the turn is at
\* the answer call, with no documents and no store query made.
C24_Witness ==
    /\ extractions[1] = <<EmptyEntities>>
    /\ chat_pc[1] = "call_claude"
    /\ State(1) = EmptyEntities
    /\ documents[1] = {}
    /\ hybrid_calls[1] = {}

\* The turns of the conversation, so far, whose extraction had a brand or a
\* model.
Mentioning(s) == {i \in 1..Len(extractions[s]) : Mentions(extractions[s][i])}
LastMention(s) ==
    extractions[s][CHOOSE i \in Mentioning(s) : \A j \in Mentioning(s) : j <= i]

\* C25: the entity state of a conversation is the extraction of its most
\* recent turn that extracted a brand or a model, both slots of it, and is
\* empty while there has been none: an empty extraction leaves it as it
\* was and nothing of an earlier extraction is kept beside a later one.
C25_ReplacePolicy ==
    \A s \in Conversations :
       chat_pc[s] # "closed" =>
          IF Mentioning(s) = {}
          THEN State(s) = EmptyEntities
          ELSE /\ State(s).brands = LastMention(s).brands
               /\ State(s).models = LastMention(s).models

\* Two turns: the first extracted a brand and a model, the second two brands
\* and no model; the state has the two brands and no model.
C25_Witness ==
    /\ Len(extractions[1]) = 2
    /\ extractions[1][1] = [brands |-> <<Moog>>, models |-> <<Sub37>>]
    /\ extractions[1][2] = [brands |-> <<Moog, Korg>>, models |-> <<>>]
    /\ State(1).brands = <<Moog, Korg>>
    /\ State(1).models = <<>>

\* C26: in a conversation no turn of which has extracted a brand or a model,
\* no retrieval is made and the answer is composed with no documents; no
\* turn of any conversation makes a store query without filters.
C26_NoMentionNoRetrieval ==
    \A s \in Conversations :
       /\ Mentioning(s) = {} =>
             /\ chat_pc[s] # "get_documentation"
             /\ hybrid_calls[s] = {}
             /\ documents[s] = {}
       /\ \A call \in hybrid_calls[s] : call.filters # <<>>

\* The second turn of a conversation in which nothing was extracted is at the
\* answer call.
C26_Witness ==
    /\ turns[1] = 2
    /\ extractions[1] = <<EmptyEntities, EmptyEntities>>
    /\ chat_pc[1] = "call_claude"
    /\ documents[1] = {}

\* The object matches the list on the property, letter case apart.
MatchesOn(object, prop, list) ==
    \E i \in 1..Len(list) : IsLowerOf(Lower(object.properties[prop]), list[i])

\* The per-field predicates the store query of the state is to carry.
Carries(call, prop, list) ==
    IF list = <<>>
    THEN \A i \in 1..Len(call.filters) : call.filters[i].prop # prop
    ELSE \E i \in 1..Len(call.filters) :
            call.filters[i] = [prop |-> prop, values |-> list]

\* C27: the store query of a turn carries, joined by any-of, 'brand contains
\* any of the state's brands' and 'model contains any of the state's models',
\* each only when its list is not empty, and every document returned is of
\* an object that matches the state on brand or on model.
C27_ScopedRetrieval ==
    \A s \in Conversations :
       /\ \A call \in hybrid_calls[s] :
             /\ Carries(call, "brand", State(s).brands)
             /\ Carries(call, "model", State(s).models)
       /\ \A doc \in documents[s] :
             \E o \in collection :
                /\ o.uuid = doc[1]
                /\ \/ MatchesOn(o, "brand", State(s).brands)
                   \/ MatchesOn(o, "model", State(s).models)

\* The state is brand Moog and no model: the query was made and returned
\* documents, and the collection has objects of other brands it did not
\* return.
C27_Witness ==
    /\ chat_pc[1] = "call_claude"
    /\ State(1).brands = <<Moog>>
    /\ State(1).models = <<>>
    /\ hybrid_calls[1] # {}
    /\ documents[1] # {}
    /\ \E o \in collection :
          /\ ~MatchesOn(o, "brand", <<Moog>>)
          /\ \A doc \in documents[1] : doc[1] # o.uuid

C29_StatePrivate ==
    /\ [](\A s \in Conversations :
             /\ writes[s] <= 1
             /\ \A call \in hybrid_calls[s] :
                   call.filters = Filterset(user_session[s].entities))
    /\ [][\A s \in Conversations :
            /\ (chat_pc[s] = "closed" /\ chat_pc'[s] # "closed") =>
                  user_session'[s] = [messages |-> start_messages,
                                      entities |-> EmptyEntities]
            /\ chat_pc'[s] = chat_pc[s] =>
                  /\ user_session'[s] = user_session[s]
                  /\ hybrid_calls'[s] = hybrid_calls[s]
                  /\ writes'[s] = writes[s]]_vars

\* The second conversation has had its turn and set its state while the turn
\* of the first is at its retrieval, each with a state of its own.
C29_Witness ==
    /\ chat_pc[1] = "get_documentation"
    /\ writes[1] = 1
    /\ State(1).brands = <<Moog>>
    /\ chat_pc[2] = "idle"
    /\ turns[2] = 1
    /\ writes[2] = 1
    /\ State(2).brands = <<Moog, Korg>>
    /\ State(2).models = <<Sub37>>

\* Some extraction of the history named a brand or a model.
Mentioned(history) == \E i \in 1..Len(history) : Mentions(history[i])

\* C32: once a turn of a conversation has extracted a brand or a model, the
\* entity state of the conversation is not empty, whatever later turns
\* extract; on that turn and on every later one, a turn that extracts nothing
\* included, get_filters returning is followed by the retrieval call, the
\* store query is made with a filter, and the answer is composed after it.
C32_StateStaysNonEmpty ==
    /\ [](\A s \in Conversations :
             Mentioned(extractions[s]) =>
                /\ Mentions(State(s))
                /\ \A call \in hybrid_calls[s] : Len(call.filters) > 0
                /\ chat_pc[s] = "call_claude" => hybrid_calls[s] # {})
    /\ [][\A s \in Conversations :
            (FiltersReturned(s) /\ Mentioned(extractions'[s])) =>
               chat_pc'[s] = "get_documentation"]_vars

\* The first turn extracted a brand, the second nothing: the second turn is
\* at the answer call, with the documents of a filtered query.
C32_Witness ==
    /\ Len(extractions[1]) = 2
    /\ extractions[1][1] = [brands |-> <<Moog>>, models |-> <<>>]
    /\ extractions[1][2] = EmptyEntities
    /\ chat_pc[1] = "call_claude"
    /\ State(1).brands = <<Moog>>
    /\ hybrid_calls[1] # {}
    /\ documents[1] # {}

\* ---------------------------------------------------------- batch tool claims

RECURSIVE SuccessText(_, _)
SuccessText(pages, n) ==
    IF n = 0 THEN <<>>
    ELSE SuccessText(pages, n - 1) \o
         (IF HasRecord(pages, n, "success")
          THEN <<PageContent(n), Newline>> ELSE <<>>)

SuccessRecords(pages, pn) ==
    {k \in RecordsOf(pages, pn) : pages[k].status = "success"}

IsPrefix(s, t) == Len(s) <= Len(t) /\ SubSeq(t, 1, Len(s)) = s

\* C31: at every point of a run the assembled text is the concatenation, in
\* increasing page order, of the sections of the pages that have a success
\* result, each page once, in the text being assembled and in a written
\* file; a step on a page (a call that fails, a retry, a success) keeps the
\* text and the results recorded before it and adds records of that page
\* only, and a written document is not touched again.
C31_TextIsSuccessSections ==
    /\ [](/\ markdown_output = SuccessText(pdf_results.pages, MaxPages)
          /\ \A p \in 1..MaxPages :
                Cardinality(SuccessRecords(pdf_results.pages, p)) <= 1
          /\ \A i \in 1..NumPdfs :
                files[i].written =>
                   files[i].md = SuccessText(files[i].results.pages, MaxPages))
    /\ [][/\ pdf' = pdf =>
                /\ IsPrefix(pdf_results.pages, pdf_results'.pages)
                /\ IsPrefix(markdown_output, markdown_output')
                /\ \A k \in (Len(pdf_results.pages) + 1)..Len(pdf_results'.pages) :
                      pdf_results'.pages[k].page_number = CurrentPage
                /\ (success' = success) => markdown_output' = markdown_output
          /\ \A i \in 1..NumPdfs : files[i].written => files'[i] = files[i]]_vars

\* Page 1 succeeded, page 2 ended as a warning, page 3 succeeded on its second
\* call: the text has the sections of pages 1 and 3.
C31_Witness ==
    /\ seg_pc = "while"
    /\ page_num = 2
    /\ Len(attempts) = 2
    /\ success
    /\ HasRecord(pdf_results.pages, 1, "success")
    /\ HasRecord(pdf_results.pages, 2, "warning")
    /\ markdown_output = <<PageContent(1), Newline, PageContent(3), Newline>>


\* ----------------------------------------------------------- pipeline claims

\* The chunk files of an output/chunks directory.
ChunkArtifacts(dir) == {f \in dir : f.name # MetadataName}

\* C33: in one pipeline run from empty output directories, metadata.json is
\* the last file the Chunker writes for a document: it is there only when
\* process_document went through (returned True), and no file of the
\* directory is written after it. So a document whose chunking failed has no
\* metadata.json; the Embedder makes the embedding call for each of its
\* chunk files, and the Indexer makes no insert call for it: no object of the
\* collection comes from a document without metadata.json.
C33_IncompleteDocumentNotIndexed ==
    /\ [](/\ \A d \in 1..NumMd :
                HasMetadataFile(chunk_dirs[d]) =>
                   \/ d < md_file
                   \/ d = md_file /\ chunk_pc \in {"returned", "done"}
          /\ chunk_pc = "returned" =>
                (result <=> HasMetadataFile(chunk_dirs[md_file]))
          /\ emb_pc = "done" =>
                \A d \in 1..NumMd :
                   ~HasMetadataFile(chunk_dirs[d]) =>
                      \A f \in ChunkArtifacts(chunk_dirs[d]) :
                         <<d, f.name>> \in embed_log
          /\ \A d \in 1..NumMd :
                ~HasMetadataFile(chunk_dirs[d]) =>
                   /\ \A c \in insert_log : c[1] # d
                   /\ \A f \in ChunkArtifacts(chunk_dirs[d]) :
                         \A o \in collection : o.uuid # f.data.id
          /\ \A o \in collection :
                \E d \in 1..NumMd :
                   /\ HasMetadataFile(chunk_dirs[d])
                   /\ \E f \in ChunkArtifacts(chunk_dirs[d]) : f.data.id = o.uuid)
    /\ [][\A d \in 1..NumMd :
             HasMetadataFile(chunk_dirs[d]) => chunk_dirs'[d] = chunk_dirs[d]]_vars

\* The pipeline is over: chunking of the first document failed after a table
\* chunk was written, the chunk was embedded and written by the Embedder and
\* is not in the collection; the second document went through and is there.
C33_Witness ==
    /\ index_pc = "done"
    /\ ChunkArtifacts(chunk_dirs[1]) # {}
    /\ ~HasMetadataFile(chunk_dirs[1])
    /\ \A f \in ChunkArtifacts(chunk_dirs[1]) : <<1, f.name>> \in embed_log
    /\ Loadable(emb_dirs[1]) # {}
    /\ \A g \in Loadable(emb_dirs[1]) : \A o \in collection : o.uuid # g.data.id
    /\ HasMetadataFile(chunk_dirs[2])
    /\ \E f \in ChunkArtifacts(chunk_dirs[2]) :
          \E o \in collection : o.uuid = f.data.id


\* ---------------------------------------------------- Embedder summary claims

\* The JSON files the Embedder found in the subfolders before subfolder n.
RECURSIVE ListedBefore(_)
ListedBefore(n) ==
    IF n <= 1 THEN 0
    ELSE ListedBefore(n - 1) +
         (IF (n - 1) \in emb_skipped THEN 0 ELSE Cardinality(chunk_dirs[n - 1]))

\* The files the loop `for json_file in json_files` has taken so far.
Examined ==
    ListedBefore(emb_dir) +
    (CASE emb_pc = "subdir" -> 0
       [] emb_pc \in {"files", "embed"} ->
             Cardinality(chunk_dirs[emb_dir]) - Cardinality(emb_todo)
       [] OTHER -> ListedBefore(emb_dir + 1) - ListedBefore(emb_dir))

\* The files in the output/embeddings folders up to subfolder n.
RECURSIVE Written(_)
Written(n) ==
    IF n = 0 THEN 0 ELSE Written(n - 1) + Cardinality(emb_dirs[n])

\* C34: every JSON file the Embedder takes from a document directory,
\* metadata.json included, is counted once, as processed or as errored: the
\* two counters add up to the number of files taken (less the one the
\* embedding call is being made for), at the end of the run to the number of
\* JSON files of the directories listed, and processed_count is the number
\* of files in the output folders.
C34_SummaryCountsEveryFile ==
    /\ processed_count + error_count =
          Examined - (IF emb_pc = "embed" THEN 1 ELSE 0)
    /\ processed_count = Written(NumMd)
    /\ emb_pc = "done" =>
          processed_count + error_count = ListedBefore(NumMd + 1)

\* The run is over: the first directory's metadata.json and one chunk were
\* written, one file of it and two files of the second directory were
\* counted as errors.
C34_Witness ==
    /\ emb_pc = "done"
    /\ emb_skipped = {}
    /\ HasMetadataFile(emb_dirs[1])
    /\ Cardinality(emb_dirs[1]) = 2
    /\ Cardinality(chunk_dirs[1]) = 3
    /\ Cardinality(chunk_dirs[2]) = 2
    /\ processed_count = 2
    /\ error_count = 3

====
